---- MODULE Spec2Model ----
(***************************************************************************)
(* Store-and-forward middleware: the structure cache and the submission    *)
(* queue of src/index.js (Express server, over src/database.js) and of     *)
(* src/unnamed/part_000 (Worker variant, with its own getDbOps).            *)
(*                                                                         *)
(* Strings are TLA+ strings; a JSON object is a sequence of fields         *)
(* [k |-> key, v |-> value] in insertion order, a value is a tagged record *)
(* [t |-> "str" | "num", s |-> text]; JSON text is a sequence of tokens.   *)
(* NULL columns and undefined JavaScript values are the strings below.     *)
(***************************************************************************)
EXTENDS Integers, Sequences, FiniteSets, TLC

\* ----------------------------------------------------------------- bounds
\* Number of clock steps a behaviour may take.
MaxTicks == 1
\* Number of rows the submissions table may hold.
MaxSubs == 2
\* Largest rowid the webform_structures table hands out (number of saves).
MaxSaves == 3
\* Largest retry_count a status update may produce.
MaxRetry == 1
\* The last rate-limit window the clock reaches.
MaxWindow == 2
\* Requests an address may always send in one window; only one address at a
\* time, in its first window, sends more.
MaxBurst == 1
\* Admissions beyond the ceiling that are followed.
MaxOver == 1

\* ------------------------------------------------------- program constants
DefaultLimit == 100
MsPerSecond == 1000
\* `15 * 60 * 1000`, `count >= 100`, `rateLimitMap.size > 1000`
WindowMs == 900000
RateCeiling == 100
PruneSize == 1000

NULL == "NULL"
Undefined == "undefined"

\* ------------------------------------------------------------- JSON values
Str(s) == [s |-> s, t |-> "str"]
Num(s) == [s |-> s, t |-> "num"]
Obj(o) == [s |-> o, t |-> "obj"]
Field(k, v) == [k |-> k, v |-> v]

Keys(obj) == {obj[i].k : i \in 1..Len(obj)}

\* obj[k] of a JavaScript object; Str(Undefined) stands for a missing key.
GetKey(obj, k) ==
  IF k \in Keys(obj)
    THEN obj[CHOOSE i \in 1..Len(obj) : obj[i].k = k].v
    ELSE Str(Undefined)

\* The object literal step `{...obj, k: v}`: an own key keeps its position and
\* takes the new value, a new key is appended.
SetKey(obj, k, v) ==
  IF k \in Keys(obj)
    THEN [i \in 1..Len(obj) |-> IF obj[i].k = k THEN Field(k, v) ELSE obj[i]]
    ELSE Append(obj, Field(k, v))

\* JSON.stringify of a value: a string is written between quotes, a number bare.
StringifyValue(v) ==
  IF v.t = "str" THEN <<"\"", v.s, "\"">> ELSE <<v.s>>

RECURSIVE StringifyFields(_, _)
StringifyFields(obj, i) ==
  IF i > Len(obj) THEN <<>>
  ELSE (IF i > 1 THEN <<",">> ELSE <<>>)
       \o <<"\"", obj[i].k, "\"", ":">> \o StringifyValue(obj[i].v)
       \o StringifyFields(obj, i + 1)

\* JSON.stringify writing every value bare (a string loses its quotes).
JSONStringifyDropQuotes(obj) ==
  LET RECURSIVE Bare(_)
      Bare(i) == IF i > Len(obj) THEN <<>>
                 ELSE (IF i > 1 THEN <<",">> ELSE <<>>)
                      \o <<"\"", obj[i].k, "\"", ":", obj[i].v.s>> \o Bare(i + 1)
  IN <<"{">> \o Bare(1) \o <<"}">>

\* JSON.stringify of an object.
JSONStringify(obj) == <<"{">> \o StringifyFields(obj, 1) \o <<"}">>

\* JSON.parse of the text of an object: reads "key" : value (, "key" : value)*
\* between braces; a later duplicate of a key replaces the earlier value.
RECURSIVE ParseFields(_, _, _)
ParseFields(toks, i, acc) ==
  IF i > Len(toks) \/ toks[i] = "}" THEN acc
  ELSE IF toks[i] = "," THEN ParseFields(toks, i + 1, acc)
  ELSE \* toks[i] = "\"", toks[i+1] the key, toks[i+2] = "\"", toks[i+3] = ":"
    LET key == toks[i + 1]
        j == i + 4
    IN IF toks[j] = "\""
         THEN ParseFields(toks, j + 3, SetKey(acc, key, Str(toks[j + 1])))
         ELSE ParseFields(toks, j + 1, SetKey(acc, key, Num(toks[j])))

JSONParse(toks) == ParseFields(toks, 2, <<>>)

\* ---------------------------------------------------------------- parseInt
Digits == <<"0", "1", "2", "3", "4", "5", "6", "7", "8", "9">>
IsDigit(c) == \E d \in 1..10 : Digits[d] = c
DigitVal(c) == (CHOOSE d \in 1..10 : Digits[d] = c) - 1

NaN == [nan |-> TRUE, n |-> 0]
Int32(n) == [nan |-> FALSE, n |-> n]

RECURSIVE ParseDigits(_, _, _)
ParseDigits(s, i, acc) ==
  IF i > Len(s) \/ ~IsDigit(s[i]) THEN acc
  ELSE ParseDigits(s, i + 1, 10 * acc + DigitVal(s[i]))

\* parseInt(s): an optional sign, then the longest run of digits; NaN when no
\* digit follows; what comes after the digits is ignored. parseInt(undefined)
\* reads the text "undefined", which starts with no digit.
ParseInt(s) ==
  IF s = <<>> THEN NaN
  ELSE LET neg == s[1] = "-"
           start == IF s[1] \in {"-", "+"} THEN 2 ELSE 1
       IN IF start > Len(s) \/ ~IsDigit(s[start]) THEN NaN
          ELSE Int32((IF neg THEN -1 ELSE 1) * ParseDigits(s, start, 0))

\* `x || d` on a number: NaN and 0 are falsy.
OrDefault(x, d) == IF x.nan \/ x.n = 0 THEN d ELSE x.n

\* ------------------------------------------------------------------- inputs
Forms == {"F", "G"}
WebhookToken == "wh-secret"
SubmissionToken == "sub-secret"
Tokens == {Undefined, WebhookToken, SubmissionToken}
\* The tokens a caller of a gated route may send: none, either secret, or a
\* value that is neither.
OtherToken == "guess"
GateTokens == Tokens \cup {OtherToken}
Suffixes == {"k3x9q", "0ab1z"}

D1 == <<Field("title", Str("Contact"))>>
D2 == <<Field("fields", Num("2"))>>
EmptyObject == <<>>
StructureDocs == {EmptyObject, D1, D2}

S1 == <<Field("email", Str("a@b.com"))>>
S2 == <<Field("timestamp", Str("1999")), Field("email", Str("a@b.com")),
        Field("submission_id", Str("mine"))>>
SubmissionDocs == {S1, S2}

\* A request body: absent, or the parsed JSON object.
NoBody == [present |-> FALSE, json |-> <<>>]
Body(obj) == [present |-> TRUE, json |-> obj]

\* An optional member of a body (`const { submission_data } = body`).
Missing == [has |-> FALSE, val |-> <<>>]
Some(v) == [has |-> TRUE, val |-> v]

\* The limit query parameter as text; <<>> is the absent parameter.
LimitParams == {<<>>, <<"0">>, <<"1">>, <<"2">>, <<"-", "1">>, <<"1", "x">>, <<"x">>}

\* The :id path parameter of the status route as text.
IdParams == {<<Digits[n + 1]>> : n \in 1..(MaxSubs + 1)} \cup {<<"x">>}

StatusInputs == {"sent", "failed", "processing", "pending", "bogus", Undefined}

\* -------------------------------------------------------------------- state
VARIABLES
  variant,              \* "express" (src/index.js) or "worker" (src/unnamed/part_000)
  env,                  \* WEBHOOK_SECRET and SUBMISSION_SECRET, Undefined when unset
  tieBreak,             \* the engine's order among rows of equal ORDER BY key
  now,                  \* the clock, in milliseconds
  webform_structures,   \* rows of table webform_structures
  submissions,          \* rows of table submissions, in rowid order
  req,                  \* the request handled last
  resp,                 \* the response sent last
  database,             \* "connected", or "disconnected" while store calls throw
  app_settings,         \* rows of table app_settings
  rateLimitMap,         \* the Worker's rateLimitMap: key |-> count
  admitted,             \* history: [ip, window] |-> requests rateLimit let through
  inflight              \* handler |-> the request it is serving, at its await

vars == <<variant, env, tieBreak, now, webform_structures, submissions, req, resp,
          database, app_settings, rateLimitMap, admitted, inflight>>

\* The handlers that can be running at once, and a handler serving nothing.
Handlers == {"h1", "h2"}
Idle == [stage |-> "idle"]

\* CURRENT_TIMESTAMP has a resolution of one second.
CURRENT_TIMESTAMP == now \div MsPerSecond
\* Date.now()
DateNow == now
\* new Date().toISOString()
ToISOString(ms) == ToString(ms) \o "Z"

Ticks == (now % MsPerSecond) + (now \div MsPerSecond)

\* A row of app_settings as INSERT OR REPLACE writes it.
SettingRow(key, value, description, dataType) ==
  [key |-> key, value |-> value, description |-> description, data_type |-> dataType,
   is_encrypted |-> FALSE,
   created_at |-> CURRENT_TIMESTAMP, updated_at |-> CURRENT_TIMESTAMP]

\* The rows startServer writes when app_name is not set yet; the Worker has
\* no start-up code.
DefaultSettings ==
  {SettingRow("app_name", Str("CivicForm Middleware"), "Application name", "string"),
   SettingRow("max_retry_attempts", Str("3"),
              "Maximum retry attempts for failed submissions", "number"),
   SettingRow("cleanup_logs_after_days", Str("30"), "Days to keep error logs", "number")}

\* The server after start-up, whatever its environment.
Started ==
  /\ variant \in {"express", "worker"}
  /\ tieBreak \in {"rowid_asc", "rowid_desc"}
  /\ now = 0
  /\ webform_structures = {}
  /\ submissions = <<>>
  /\ req = [route |-> "none", authorized |-> FALSE]
  /\ resp = [code |-> 0]
  /\ database = "connected"
  /\ app_settings = IF variant = "express" THEN DefaultSettings ELSE {}
  /\ rateLimitMap = <<>>
  /\ admitted = <<>>
  /\ inflight = [h \in Handlers |-> Idle]

Init ==
  /\ Started
  /\ env \in {[WEBHOOK_SECRET |-> Undefined, SUBMISSION_SECRET |-> Undefined],
              [WEBHOOK_SECRET |-> WebhookToken, SUBMISSION_SECRET |-> SubmissionToken]}

\* ------------------------------------------------------------ table access
\* A store call (db.execute, db.prepare(...).run/first/all) throws.
StoreThrows == database = "disconnected"

\* The exception a failing store call throws.
StoreError == [name |-> "LibsqlError", message |-> "SQLITE_CANTOPEN: unable to open database file",
               stack |-> "LibsqlError: SQLITE_CANTOPEN at execute (database.js)"]

MaxOf(S) == CHOOSE x \in S : \A y \in S : y <= x

\* The rowid SQLite gives a new row of an INTEGER PRIMARY KEY table.
NewStructureRowid ==
  IF webform_structures = {} THEN 1
  ELSE MaxOf({r.id : r \in webform_structures}) + 1

StructureRow(id, webformId, structureData) ==
  [id |-> id, webform_id |-> webformId, structure_data |-> structureData,
   version |-> 1, is_active |-> TRUE,
   created_at |-> CURRENT_TIMESTAMP, updated_at |-> CURRENT_TIMESTAMP]

\* An upsert that updates the stored row in place: rowid and created_at stay
\* and the version counts the saves.
InsertOrUpdateInPlace(webformId, structureData) ==
  IF \E r \in webform_structures : r.webform_id = webformId
    THEN {IF r.webform_id = webformId
            THEN [r EXCEPT !.structure_data = structureData,
                           !.version = @ + 1,
                           !.updated_at = CURRENT_TIMESTAMP]
            ELSE r : r \in webform_structures}
    ELSE webform_structures \cup {StructureRow(NewStructureRowid, webformId, structureData)}

\* INSERT without OR REPLACE semantics: the row of the same webform_id stays.
InsertKeepingOld(webformId, structureData) ==
  webform_structures \cup {StructureRow(NewStructureRowid, webformId, structureData)}

\* INSERT OR REPLACE: the row that holds the UNIQUE webform_id is deleted and
\* a fresh row (new rowid, column defaults) is inserted.
InsertOrReplace(webformId, structureData) ==
  {r \in webform_structures : r.webform_id # webformId}
    \cup {StructureRow(NewStructureRowid, webformId, structureData)}

\* A save that writes member by member into the stored document, so that the
\* members of the earlier document that the new one lacks stay.
saveMergingDocuments(webformId, structureData) ==
  LET old == {r \in webform_structures : r.webform_id = webformId}
      base == IF old = {} THEN EmptyObject
              ELSE JSONParse((CHOOSE r \in old : TRUE).structure_data)
      RECURSIVE Put(_, _)
      Put(acc, i) == IF i > Len(structureData) THEN acc
                     ELSE Put(SetKey(acc, structureData[i].k, structureData[i].v), i + 1)
  IN InsertOrReplace(webformId, JSONStringify(Put(base, 1)))

\* dbOps.saveWebformStructure: the table after the save.
saveWebformStructure(webformId, structureData) ==
  InsertOrReplace(webformId, JSONStringify(structureData))

\* A lookup that forgets the WHERE webform_id = ? condition.
getAnyStructure(webformId) == {r \in webform_structures : r.is_active}

\* dbOps.getWebformStructure: the rows selected (result.rows).
getWebformStructure(webformId) ==
  {r \in webform_structures : r.webform_id = webformId /\ r.is_active}

\* ----------------------------------------------------------- authentication
\* A gate that lets every request with a token through.
AuthenticateAnyToken(secret, authToken) ==
  \/ secret = Undefined
  \/ authToken # Undefined

\* A gate that rejects the request without a token also when no secret is set.
AuthenticateFailClosed(secret, authToken) ==
  authToken # Undefined /\ authToken = secret

\* authenticateWebhook / authenticateSubmission: TRUE when next() is called.
Authenticate(secret, authToken) ==
  \/ secret = Undefined
  \/ (authToken # Undefined /\ authToken = secret)

\* A submission gate that compares with the structure-push secret.
authenticateWithWebhookSecret(authToken) == Authenticate(env.WEBHOOK_SECRET, authToken)

authenticateWebhook(authToken) == Authenticate(env.WEBHOOK_SECRET, authToken)
authenticateSubmission(authToken) == Authenticate(env.SUBMISSION_SECRET, authToken)

\* The request as the server read it: a request the gate rejects is answered
\* before its parameters and body are looked at.
Request(route, authorized, input) ==
  IF authorized THEN [route |-> route, authorized |-> TRUE, input |-> input]
  ELSE [route |-> route, authorized |-> FALSE]

\* The request of a gated route. The gate reads the x-auth-token header only
\* when its secret is configured.
GateRequest(secret, authToken, route, input) ==
  IF secret = Undefined THEN Request(route, TRUE, input)
  ELSE [token |-> authToken] @@ Request(route, Authenticate(secret, authToken), input)

\* ---------------------------------------------------------------- responses
Unauthorized == [code |-> 401, error |-> "Unauthorized"]
BadRequest(msg) == [code |-> 400, error |-> msg]
InternalServerError == [code |-> 500, error |-> "Internal server error"]

\* The body a handler sees. express.json() leaves {} when the request has no
\* body; in the Worker `await c.req.json()` throws on it (the handler's catch
\* answers 500), which Parsed(body) = FALSE stands for.
Parsed(body) == body.present \/ variant = "express"
BodyObject(body) == IF body.present THEN body.json ELSE EmptyObject

\* --------------------------------------------------------------- clock step
Tick(d) ==
  /\ Ticks < MaxTicks
  /\ now' = now + d
  /\ UNCHANGED <<variant, inflight, env, tieBreak, webform_structures, submissions, req, resp,
               database, app_settings, rateLimitMap, admitted>>

\* ------------------------------------- POST /api/webform/:webform_id/structure
PostStructure(authToken, webform_id, body) ==
  LET form_data == BodyObject(body)
      saves == /\ authenticateWebhook(authToken)
               /\ Parsed(body)
               /\ Len(form_data) # 0
               /\ ~StoreThrows
  IN
  /\ saves => NewStructureRowid <= MaxSaves
  /\ req' = GateRequest(env.WEBHOOK_SECRET, authToken, "POST structure",
                     [webform_id |-> webform_id, body |-> body])
  /\ IF ~authenticateWebhook(authToken) THEN
       /\ resp' = Unauthorized
       /\ UNCHANGED webform_structures
     ELSE IF ~Parsed(body) THEN
       /\ resp' = InternalServerError
       /\ UNCHANGED webform_structures
     ELSE IF Len(form_data) = 0 THEN
       /\ resp' = BadRequest("Missing form structure data")
       /\ UNCHANGED webform_structures
     ELSE IF StoreThrows THEN
       /\ resp' = InternalServerError
       /\ UNCHANGED webform_structures
     ELSE
       /\ webform_structures' = saveWebformStructure(webform_id, form_data)
       /\ resp' = [code |-> 200, success |-> TRUE, webform_id |-> webform_id,
                   id |-> NewStructureRowid]
  /\ UNCHANGED <<variant, inflight, env, tieBreak, now, database, app_settings, rateLimitMap, admitted,
               submissions>>

\* -------------------------------------------- POST /api/webhook (Worker only)
\* The legacy route takes { form_id, submission_data } and saves
\* submission_data as the structure of form_id.
PostWebhook(authToken, form_id, submission_data) ==
  LET saves == /\ authenticateWebhook(authToken)
               /\ form_id # Undefined
               /\ submission_data.has
               /\ ~StoreThrows
  IN
  /\ variant = "worker"
  /\ saves => NewStructureRowid <= MaxSaves
  /\ req' = GateRequest(env.WEBHOOK_SECRET, authToken, "POST webhook",
                     [form_id |-> form_id, submission_data |-> submission_data])
  /\ IF ~authenticateWebhook(authToken) THEN
       /\ resp' = Unauthorized
       /\ UNCHANGED webform_structures
     ELSE IF form_id = Undefined \/ ~submission_data.has THEN
       /\ resp' = BadRequest("Missing form_id or submission_data")
       /\ UNCHANGED webform_structures
     ELSE IF StoreThrows THEN
       /\ resp' = InternalServerError
       /\ UNCHANGED webform_structures
     ELSE
       /\ webform_structures' = saveWebformStructure(form_id, submission_data.val)
       /\ resp' = [code |-> 200, success |-> TRUE, form_id |-> form_id,
                   id |-> NewStructureRowid]
  /\ UNCHANGED <<variant, inflight, env, tieBreak, now, database, app_settings, rateLimitMap, admitted,
               submissions>>

\* -------------------------------------- GET /api/webform/:webform_id/structure
GetStructureResponse(webform_id) ==
  LET rows == getWebformStructure(webform_id)
  IN IF StoreThrows THEN InternalServerError
     ELSE IF rows = {} THEN
       [code |-> 404, error |-> "Webform structure not found",
        webform_id |-> webform_id]
     ELSE LET formData == CHOOSE r \in rows : TRUE
          IN [code |-> 200, webform_id |-> webform_id,
              structure |-> JSONParse(formData.structure_data),
              created_at |-> formData.created_at,
              updated_at |-> formData.updated_at]

GetStructure(webform_id) ==
  /\ req' = Request("GET structure", TRUE, [webform_id |-> webform_id])
  /\ resp' = GetStructureResponse(webform_id)
  /\ UNCHANGED <<variant, inflight, env, tieBreak, now, database, app_settings, rateLimitMap, admitted,
               webform_structures, submissions>>

\* ------------------------------------------------------ submissions table
\* dbOps.createSubmission: the row INSERT adds (status, retry_count, the two
\* timestamps, sent_at and error_message take the column defaults). The
\* user_agent and ip_address columns copy request headers and are left out.
SubmissionRow(submissionId, formId, submissionData) ==
  [id |-> Len(submissions) + 1, submission_id |-> submissionId, form_id |-> formId,
   submission_data |-> JSONStringify(submissionData),
   status |-> "pending", retry_count |-> 0,
   created_at |-> CURRENT_TIMESTAMP, updated_at |-> CURRENT_TIMESTAMP,
   sent_at |-> NULL, error_message |-> NULL]

\* submission_id is UNIQUE: the INSERT throws when the id is already stored.
\* A column submission_id without the UNIQUE constraint: no INSERT is refused.
NoUniqueConstraint(submissionId) == FALSE

UniqueViolation(submissionId) ==
  \E i \in 1..Len(submissions) : submissions[i].submission_id = submissionId

\* An INSERT that also expires the submissions already sent.
createSubmissionExpiringSent(submissionId, formId, submissionData) ==
  Append(SelectSeq(submissions, LAMBDA r : r.status # "sent"),
         SubmissionRow(submissionId, formId, submissionData))

\* An insert that keeps one submission per form: the earlier rows of the form
\* are replaced by the new one.
createSubmissionLatestPerForm(submissionId, formId, submissionData) ==
  Append(SelectSeq(submissions, LAMBDA r : r.form_id # formId),
         SubmissionRow(submissionId, formId, submissionData))

createSubmission(submissionId, formId, submissionData) ==
  Append(submissions, SubmissionRow(submissionId, formId, submissionData))

\* `${form_id}_${Date.now()}_${Math.random().toString(36).substring(2, 9)}`
SubmissionId(form_id, suffix) ==
  form_id \o "_" \o ToString(DateNow) \o "_" \o suffix

\* { timestamp: ..., submission_id: ..., ...submission_data }: the caller's
\* members are spread last and win.
SpreadLast(submission_data, submissionId) ==
  LET server == <<Field("timestamp", Str(ToISOString(now))),
                  Field("submission_id", Str(submissionId))>>
      RECURSIVE Put(_, _)
      Put(acc, i) == IF i > Len(submission_data) THEN acc
                     ELSE Put(SetKey(acc, submission_data[i].k, submission_data[i].v), i + 1)
  IN Put(server, 1)

\* { ...submission_data, timestamp: new Date().toISOString(), submission_id }
submissionWithTimestamp(submission_data, submissionId) ==
  SetKey(SetKey(submission_data, "timestamp", Str(ToISOString(now))),
         "submission_id", Str(submissionId))

\* The form id the submission handler reads. The Express handler destructures
\* `form_id` from req.params, whose only member is webform_id; the Worker
\* handler reads c.req.param('webform_id').
SubmissionFormId(webform_id) ==
  LET params == <<Field("webform_id", Str(webform_id))>>
  IN IF variant = "express" THEN GetKey(params, "form_id").s
     ELSE GetKey(params, "webform_id").s

\* ------------------------------------ POST /api/webform/:webform_id/submission
PostSubmission(authToken, webform_id, body, suffix) ==
  LET form_id == SubmissionFormId(webform_id)
      has == Parsed(body) /\ "submission_data" \in Keys(BodyObject(body))
      submission_data == GetKey(BodyObject(body), "submission_data").s
      submissionId == SubmissionId(form_id, suffix)
      inserts == /\ authenticateSubmission(authToken)
                 /\ Parsed(body)
                 /\ form_id # Undefined
                 /\ has
                 /\ ~StoreThrows
  IN
  /\ (inserts /\ ~UniqueViolation(submissionId)) => Len(submissions) < MaxSubs
  /\ req' = GateRequest(env.SUBMISSION_SECRET, authToken, "POST submission",
                     [webform_id |-> webform_id, body |-> body, suffix |-> suffix])
  /\ IF ~authenticateSubmission(authToken) THEN
       /\ resp' = Unauthorized
       /\ UNCHANGED submissions
     ELSE IF ~Parsed(body) THEN
       /\ resp' = InternalServerError
       /\ UNCHANGED submissions
     ELSE IF form_id = Undefined \/ ~has THEN
       /\ resp' = BadRequest("Missing form_id or submission_data")
       /\ UNCHANGED submissions
     ELSE IF StoreThrows \/ UniqueViolation(submissionId) THEN
       /\ resp' = InternalServerError
       /\ UNCHANGED submissions
     ELSE
       /\ submissions' = createSubmission(submissionId, form_id,
                            submissionWithTimestamp(submission_data, submissionId))
       /\ resp' = [code |-> 200, success |-> TRUE, submission_id |-> submissionId,
                   db_id |-> Len(submissions) + 1]
  /\ UNCHANGED <<variant, inflight, env, tieBreak, now, database, app_settings, rateLimitMap, admitted,
               webform_structures>>

\* --------------------------------------------------------- ORDER BY / LIMIT
Min(a, b) == IF a < b THEN a ELSE b

\* Rows of equal created_at come in the order the engine happens to produce.
TieBefore(a, b) == IF tieBreak = "rowid_asc" THEN a.id < b.id ELSE a.id > b.id

\* ORDER BY created_at <dir>: TRUE when row a comes before row b.
CreatedBefore(a, b, dir) ==
  \/ (dir = "ASC" /\ a.created_at < b.created_at)
  \/ (dir = "DESC" /\ a.created_at > b.created_at)
  \/ (a.created_at = b.created_at /\ TieBefore(a, b))

\* The rows of S as the sequence ORDER BY created_at <dir> produces.
OrderBy(S, dir) ==
  [i \in 1..Cardinality(S) |->
     CHOOSE r \in S : Cardinality({x \in S : CreatedBefore(x, r, dir)}) = i - 1]

\* LIMIT n: a negative n is no limit, as in SQLite.
Limit(rows, n) == IF n < 0 THEN rows ELSE SubSeq(rows, 1, Min(n, Len(rows)))

Rows(table) == {table[i] : i \in 1..Len(table)}

\* dbOps.getSubmissionsByStatus: the rows, each with submission_data parsed.
\* A drain that reads the queue from its newest end.
getSubmissionsNewestFirst(status, limit) ==
  LET rows == Limit(OrderBy({r \in Rows(submissions) : r.status = status}, "DESC"),
                    limit)
  IN [i \in 1..Len(rows) |->
        [rows[i] EXCEPT !.submission_data = JSONParse(rows[i].submission_data)]]

getSubmissionsByStatus(status, limit) ==
  LET rows == Limit(OrderBy({r \in Rows(submissions) : r.status = status}, "ASC"),
                    limit)
  IN [i \in 1..Len(rows) |->
        [rows[i] EXCEPT !.submission_data = JSONParse(rows[i].submission_data)]]

\* ----------------------------------------------- GET /api/submissions/pending
\* `parseInt(req.query.limit) || 100`
PendingLimit(limitParam) == OrDefault(ParseInt(limitParam), DefaultLimit)

\* A drain that claims what it returns: it leaves out the submissions held in
\* the answer of a drain still in flight.
GetPendingUnclaimed(authToken, limitParam) ==
  LET claimed == UNION {{inflight[h].resp.submissions[i].id :
                           i \in 1..Len(inflight[h].resp.submissions)} :
                        h \in {g \in Handlers :
                                 /\ inflight[g].stage = "respond"
                                 /\ inflight[g].req.route = "GET pending"
                                 /\ inflight[g].resp.code = 200}}
      subs == Limit(OrderBy({r \in Rows(submissions) :
                               r.status = "pending" /\ r.id \notin claimed}, "ASC"),
                    PendingLimit(limitParam))
  IN IF ~authenticateWebhook(authToken) THEN Unauthorized
     ELSE IF StoreThrows THEN InternalServerError
     ELSE [code |-> 200,
           submissions |-> [i \in 1..Len(subs) |->
              [id |-> subs[i].id, submission_id |-> subs[i].submission_id,
               form_id |-> subs[i].form_id,
               data |-> JSONParse(subs[i].submission_data),
               created_at |-> subs[i].created_at,
               retry_count |-> subs[i].retry_count]],
           count |-> Len(subs)]

GetPendingResponse(authToken, limitParam) ==
  IF ~authenticateWebhook(authToken) THEN Unauthorized
  ELSE IF StoreThrows THEN InternalServerError
  ELSE LET subs == getSubmissionsByStatus("pending", PendingLimit(limitParam))
       IN [code |-> 200,
           submissions |-> [i \in 1..Len(subs) |->
              [id |-> subs[i].id, submission_id |-> subs[i].submission_id,
               form_id |-> subs[i].form_id, data |-> subs[i].submission_data,
               created_at |-> subs[i].created_at,
               retry_count |-> subs[i].retry_count]],
           count |-> Len(subs)]

\* A drain that also marks what it returns as processing.
GetPendingAndMark(authToken, limitParam) ==
  /\ req' = GateRequest(env.WEBHOOK_SECRET, authToken, "GET pending",
                     [limit |-> limitParam])
  /\ resp' = GetPendingResponse(authToken, limitParam)
  /\ submissions' =
       [i \in 1..Len(submissions) |->
          IF /\ resp'.code = 200
             /\ \E j \in 1..Len(resp'.submissions) :
                  resp'.submissions[j].id = submissions[i].id
            THEN [submissions[i] EXCEPT !.status = "processing"]
            ELSE submissions[i]]
  /\ UNCHANGED <<variant, inflight, env, tieBreak, now, database, app_settings, rateLimitMap, admitted,
               webform_structures>>

GetPending(authToken, limitParam) ==
  /\ req' = GateRequest(env.WEBHOOK_SECRET, authToken, "GET pending",
                     [limit |-> limitParam])
  /\ resp' = GetPendingResponse(authToken, limitParam)
  /\ UNCHANGED <<variant, inflight, env, tieBreak, now, database, app_settings, rateLimitMap, admitted,
               webform_structures, submissions>>

\* -------------------------------------------- PATCH /api/submissions/:id/status
\* A check that also lets 'pending' through.
ValidStatusWithPending(status) == status \in {"sent", "failed", "processing", "pending"}

\* ['sent', 'failed', 'processing'].includes(status)
ValidStatus(status) == status \in {"sent", "failed", "processing"}

\* The UPDATE counting a retry for every status, not for 'failed' alone.
UpdateCountingEveryStatus(id, status, errorMessage, sentAt) ==
  [i \in 1..Len(submissions) |->
     IF ~id.nan /\ submissions[i].id = id.n
       THEN [submissions[i] EXCEPT
               !.status = status,
               !.error_message = IF errorMessage = Undefined THEN NULL ELSE errorMessage,
               !.sent_at = sentAt,
               !.retry_count = @ + 1,
               !.updated_at = CURRENT_TIMESTAMP]
       ELSE submissions[i]]

\* An update that inserts the submission when no row has the id.
updateOrInsert(id, status, errorMessage, sentAt) ==
  IF ~id.nan /\ \E i \in 1..Len(submissions) : submissions[i].id = id.n
    THEN [i \in 1..Len(submissions) |->
            IF submissions[i].id = id.n
              THEN [submissions[i] EXCEPT
                      !.status = status,
                      !.error_message = IF errorMessage = Undefined THEN NULL ELSE errorMessage,
                      !.sent_at = sentAt,
                      !.retry_count = IF status = "failed" THEN @ + 1 ELSE @,
                      !.updated_at = CURRENT_TIMESTAMP]
              ELSE submissions[i]]
    ELSE Append(submissions,
                [SubmissionRow("unknown", "unknown", EmptyObject) EXCEPT
                   !.status = status, !.sent_at = sentAt])

\* An update that puts a failed submission back into the queue.
updateRequeueingFailed(id, status, errorMessage, sentAt) ==
  [i \in 1..Len(submissions) |->
     IF ~id.nan /\ submissions[i].id = id.n
       THEN [submissions[i] EXCEPT
               !.status = IF status = "failed" THEN "pending" ELSE status,
               !.error_message = IF errorMessage = Undefined THEN NULL ELSE errorMessage,
               !.sent_at = sentAt,
               !.retry_count = IF status = "failed" THEN @ + 1 ELSE @,
               !.updated_at = CURRENT_TIMESTAMP]
       ELSE submissions[i]]

\* An update that writes sent_at only when it has a value for it, and
\* error_message only when one is supplied.
updateKeepingOldValues(id, status, errorMessage, sentAt) ==
  [i \in 1..Len(submissions) |->
     IF ~id.nan /\ submissions[i].id = id.n
       THEN [submissions[i] EXCEPT
               !.status = status,
               !.error_message = IF errorMessage = Undefined THEN @ ELSE errorMessage,
               !.sent_at = IF sentAt = NULL THEN @ ELSE sentAt,
               !.retry_count = IF status = "failed" THEN @ + 1 ELSE @,
               !.updated_at = CURRENT_TIMESTAMP]
       ELSE submissions[i]]

\* dbOps.updateSubmissionStatus: UPDATE ... WHERE id = ?. A NaN id matches no
\* row; an undefined errorMessage takes the parameter default null.
updateSubmissionStatus(id, status, errorMessage, sentAt) ==
  [i \in 1..Len(submissions) |->
     IF ~id.nan /\ submissions[i].id = id.n
       THEN [submissions[i] EXCEPT
               !.status = status,
               !.error_message = IF errorMessage = Undefined THEN NULL ELSE errorMessage,
               !.sent_at = sentAt,
               !.retry_count = IF status = "failed" THEN @ + 1 ELSE @,
               !.updated_at = CURRENT_TIMESTAMP]
       ELSE submissions[i]]

PatchStatus(authToken, idParam, body) ==
  LET id == ParseInt(idParam)
      status == GetKey(BodyObject(body), "status").s
      error_message == GetKey(BodyObject(body), "error_message").s
      sentAt == IF status = "sent" THEN ToISOString(now) ELSE NULL
      updated == updateSubmissionStatus(id, status, error_message, sentAt)
      updates == /\ authenticateWebhook(authToken)
                 /\ Parsed(body)
                 /\ ValidStatus(status)
                 /\ ~StoreThrows
  IN
  /\ updates => \A i \in 1..Len(updated) : updated[i].retry_count <= MaxRetry
  /\ req' = GateRequest(env.WEBHOOK_SECRET, authToken, "PATCH status",
                     [id |-> idParam, body |-> body])
  /\ IF ~authenticateWebhook(authToken) THEN
       /\ resp' = Unauthorized
       /\ UNCHANGED submissions
     ELSE IF ~Parsed(body) THEN
       /\ resp' = InternalServerError
       /\ UNCHANGED submissions
     ELSE IF ~ValidStatus(status) THEN
       /\ resp' = BadRequest("Invalid status. Must be: sent, failed, or processing")
       /\ UNCHANGED submissions
     ELSE IF StoreThrows THEN
       /\ resp' = InternalServerError
       /\ UNCHANGED submissions
     ELSE
       /\ submissions' = updated
       /\ resp' = [code |-> 200, success |-> TRUE, status |-> status, id |-> id]
  /\ UNCHANGED <<variant, inflight, env, tieBreak, now, database, app_settings, rateLimitMap, admitted,
               webform_structures>>

\* ------------------------------------------- POST /api/webform/submissions
\* dbOps.getFilteredSubmissions: every supplied (truthy) filter adds an AND
\* term; ORDER BY created_at DESC LIMIT parseInt(limit), limit defaulting to 100.
getFilteredSubmissions(filters) ==
  LET f(k) == GetKey(filters, k)
      \* `if (status)`: a member that is missing, "" or 0 adds no term
      on(k) == /\ k \in Keys(filters)
               /\ ~(f(k).t = "str" /\ f(k).s = "")
               /\ ~(f(k).t = "num" /\ f(k).s = 0)
      limit == IF "limit" \in Keys(filters) THEN ParseInt(f("limit").s).n ELSE DefaultLimit
      match(r) ==
        /\ on("status") => r.status = f("status").s
        /\ on("form_id") => r.form_id = f("form_id").s
        /\ on("start_date") => r.created_at >= f("start_date").s
        /\ on("end_date") => r.created_at <= f("end_date").s
      rows == Limit(OrderBy({r \in Rows(submissions) : match(r)}, "DESC"), limit)
  IN [i \in 1..Len(rows) |->
        [id |-> rows[i].id, submission_id |-> rows[i].submission_id,
         form_id |-> rows[i].form_id, data |-> JSONParse(rows[i].submission_data),
         status |-> rows[i].status, retry_count |-> rows[i].retry_count,
         created_at |-> rows[i].created_at, updated_at |-> rows[i].updated_at,
         sent_at |-> rows[i].sent_at, error_message |-> rows[i].error_message]]

PostFilteredList(authToken, body) ==
  /\ req' = GateRequest(env.SUBMISSION_SECRET, authToken, "POST submissions",
                     [body |-> body])
  /\ resp' = IF ~authenticateSubmission(authToken) THEN Unauthorized
             ELSE IF ~Parsed(body) \/ StoreThrows THEN InternalServerError
             ELSE LET list == getFilteredSubmissions(BodyObject(body))
                  IN [code |-> 200, submissions |-> list, count |-> Len(list),
                      filters |-> BodyObject(body)]
  /\ UNCHANGED <<variant, inflight, env, tieBreak, now, database, app_settings, rateLimitMap, admitted,
               webform_structures, submissions>>

\* ------------------------------------------------------------ app_settings
\* dbOps.setSetting: INSERT OR REPLACE on the PRIMARY KEY key; an undefined
\* description takes the parameter default null.
setSetting(key, value, description, dataType) ==
  {r \in app_settings : r.key # key}
    \cup {SettingRow(key, value, IF description = Undefined THEN NULL ELSE description,
                     dataType)}

\* The keys the model uses, in the order ORDER BY key gives them.
SettingKeys == <<"app_name", "cleanup_logs_after_days", "health_check",
                 "max_retry_attempts", "theme">>

\* dbOps.getAllSettings: SELECT key, value, description, data_type ORDER BY key.
\* (No setting of the model has data_type 'json', the one whose value is parsed.)
getAllSettings ==
  LET present == {i \in 1..Len(SettingKeys) : \E r \in app_settings : r.key = SettingKeys[i]}
      nth(n) == CHOOSE i \in present : Cardinality({j \in present : j < i}) = n - 1
      row(k) == CHOOSE r \in app_settings : r.key = k
  IN [n \in 1..Cardinality(present) |->
        LET r == row(SettingKeys[nth(n)])
        IN [key |-> r.key, value |-> r.value, description |-> r.description,
            data_type |-> r.data_type]]

\* ------------------------------------------------------- GET /api/settings
GetSettings(authToken) ==
  /\ req' = GateRequest(env.WEBHOOK_SECRET, authToken, "GET settings", <<>>)
  /\ resp' = IF ~authenticateWebhook(authToken) THEN Unauthorized
             ELSE IF StoreThrows THEN InternalServerError
             ELSE [code |-> 200, settings |-> getAllSettings]
  /\ UNCHANGED <<variant, inflight, env, tieBreak, now, database, app_settings, rateLimitMap, admitted,
               webform_structures, submissions>>

\* ------------------------------------------------------ POST /api/settings
PostSettings(authToken, body) ==
  LET o == BodyObject(body)
      key == GetKey(o, "key").s
      value == GetKey(o, "value")
      description == GetKey(o, "description").s
      data_type == IF "data_type" \in Keys(o) THEN GetKey(o, "data_type").s ELSE "string"
  IN
  /\ req' = GateRequest(env.WEBHOOK_SECRET, authToken, "POST settings", [body |-> body])
  /\ IF ~authenticateWebhook(authToken) THEN
       /\ resp' = Unauthorized
       /\ UNCHANGED app_settings
     ELSE IF ~Parsed(body) THEN
       /\ resp' = InternalServerError
       /\ UNCHANGED app_settings
     ELSE IF key = Undefined \/ value = Str(Undefined) THEN
       /\ resp' = BadRequest("Missing key or value")
       /\ UNCHANGED app_settings
     ELSE IF StoreThrows THEN
       /\ resp' = InternalServerError
       /\ UNCHANGED app_settings
     ELSE
       /\ app_settings' = setSetting(key, value, description, data_type)
       /\ resp' = [code |-> 200, success |-> TRUE, key |-> key, value |-> value]
  /\ UNCHANGED <<variant, inflight, env, tieBreak, now, database, rateLimitMap, admitted,
               webform_structures, submissions>>

\* ------------------------------------------- GET /api/analytics/submissions
\* dbOps.getSubmissionStats: SELECT status, COUNT(*) ... GROUP BY status.
getSubmissionStats ==
  {[status |-> st, count |-> Cardinality({r \in Rows(submissions) : r.status = st})] :
     st \in {r.status : r \in Rows(submissions)}}

GetAnalyticsSubmissions(authToken) ==
  /\ req' = GateRequest(env.WEBHOOK_SECRET, authToken, "GET analytics submissions", <<>>)
  /\ resp' = IF ~authenticateWebhook(authToken) THEN Unauthorized
             ELSE IF StoreThrows THEN InternalServerError
             ELSE [code |-> 200, stats |-> getSubmissionStats]
  /\ UNCHANGED <<variant, inflight, env, tieBreak, now, database, app_settings, rateLimitMap, admitted,
               webform_structures, submissions>>

\* --------------------------------------------- GET /api/analytics/api-usage
\* The tables error_logs and api_usage are written by logError and by the
\* request-logging middleware; the two routes that read them take the rows the
\* table holds at the time of the request as an input.
ApiUsageRow(id, endpoint, method, statusCode, createdAt) ==
  [id |-> id, endpoint |-> endpoint, method |-> method, status_code |-> statusCode,
   created_at |-> createdAt]

ApiUsageTables ==
  {{},
   {ApiUsageRow(1, "/health", "GET", 200, 0),
    ApiUsageRow(2, "/health", "GET", 503, 0),
    ApiUsageRow(3, "/api/settings", "GET", 401, 0)}}

\* `parseInt(req.query.hours) || 24`
SecondsPerHour == 3600
DefaultHours == 24

\* dbOps.getApiStats: per (endpoint, method) of the last `hours` hours the
\* number of requests and of those answered 400 or more (error_rate is their
\* quotient in percent).
getApiStats(api_usage, hours) ==
  LET recent == {r \in api_usage : r.created_at >= CURRENT_TIMESTAMP - hours * SecondsPerHour}
      group(e, m) == {r \in recent : r.endpoint = e /\ r.method = m}
  IN {[endpoint |-> r.endpoint, method |-> r.method,
       requests |-> Cardinality(group(r.endpoint, r.method)),
       errors |-> Cardinality({x \in group(r.endpoint, r.method) : x.status_code >= 400})] :
        r \in recent}

GetAnalyticsApiUsage(authToken, hoursParam, api_usage) ==
  LET hours == OrDefault(ParseInt(hoursParam), DefaultHours)
  IN
  /\ req' = GateRequest(env.WEBHOOK_SECRET, authToken, "GET analytics api-usage",
                        [hours |-> hoursParam])
  /\ resp' = IF ~authenticateWebhook(authToken) THEN Unauthorized
             ELSE IF StoreThrows THEN InternalServerError
             ELSE [code |-> 200, stats |-> getApiStats(api_usage, hours), hours |-> hours]
  /\ UNCHANGED <<variant, inflight, env, tieBreak, now, database, app_settings, rateLimitMap, admitted,
               webform_structures, submissions>>

\* ------------------------------------------------------ GET /api/logs/errors
ErrorLogRow(id, level, message, endpoint, createdAt) ==
  [id |-> id, level |-> level, message |-> message, endpoint |-> endpoint,
   created_at |-> createdAt]

ErrorLogTables ==
  {{},
   {ErrorLogRow(1, "warn", "Webhook authentication failed", "/api/settings", 0),
    ErrorLogRow(2, "error", "Health check failed", "/health", 0)}}

\* `parseInt(req.query.limit) || 50`
DefaultErrorLimit == 50

\* dbOps.getRecentErrors: SELECT * FROM error_logs ORDER BY created_at DESC LIMIT ?
getRecentErrors(error_logs, limit) == Limit(OrderBy(error_logs, "DESC"), limit)

GetLogsErrors(authToken, limitParam, error_logs) ==
  LET limit == OrDefault(ParseInt(limitParam), DefaultErrorLimit)
  IN
  /\ req' = GateRequest(env.WEBHOOK_SECRET, authToken, "GET logs errors",
                        [limit |-> limitParam])
  /\ resp' = IF ~authenticateWebhook(authToken) THEN Unauthorized
             ELSE IF StoreThrows THEN InternalServerError
             ELSE [code |-> 200, errors |-> getRecentErrors(error_logs, limit),
                   limit |-> limit]
  /\ UNCHANGED <<variant, inflight, env, tieBreak, now, database, app_settings, rateLimitMap, admitted,
               webform_structures, submissions>>

\* ----------------------------------------------------------------- GET /health
\* `await dbOps.getSetting('health_check') || 'ok'` only probes the store; the
\* catch puts error.message into the body.
GetHealth ==
  /\ req' = Request("GET health", TRUE, <<>>)
  /\ resp' = IF StoreThrows
               THEN [code |-> 503, status |-> "unhealthy", timestamp |-> ToISOString(now),
                     database |-> "disconnected", error |-> StoreError.message]
               ELSE [code |-> 200, status |-> "healthy", timestamp |-> ToISOString(now),
                     database |-> "connected", version |-> "2.0.0"]
  /\ UNCHANGED <<variant, inflight, env, tieBreak, now, database, app_settings, rateLimitMap, admitted,
               webform_structures, submissions>>

\* ------------------------------------------------------------ the store
\* The store becomes unreachable (every store call throws) and reachable again.
StoreGoesDown ==
  /\ database = "connected"
  /\ database' = "disconnected"
  /\ UNCHANGED <<variant, inflight, env, tieBreak, now, app_settings, rateLimitMap, admitted,
                 webform_structures, submissions, req, resp>>

StoreComesBack ==
  /\ database = "disconnected"
  /\ database' = "connected"
  /\ UNCHANGED <<variant, inflight, env, tieBreak, now, app_settings, rateLimitMap, admitted,
                 webform_structures, submissions, req, resp>>

\* ------------------------------------------------------ concurrent requests
\* A handler runs without interruption up to its `await` of the store call;
\* the store executes one statement at a time; the handler answers after the
\* call returns. Between these steps other handlers run.
Awaiting(request, call) == [stage |-> "store", req |-> request, call |-> call]
Answering(request, response) == [stage |-> "respond", req |-> request, resp |-> response]

\* POST /api/webform/:webform_id/structure up to `await dbOps.saveWebformStructure`.
ReceivePostStructure(h, authToken, webform_id, body) ==
  LET form_data == BodyObject(body)
      request == GateRequest(env.WEBHOOK_SECRET, authToken, "POST structure",
                             [webform_id |-> webform_id, body |-> body])
  IN
  /\ inflight[h] = Idle
  /\ inflight' = [inflight EXCEPT ![h] =
       IF ~authenticateWebhook(authToken) THEN Answering(request, Unauthorized)
       ELSE IF ~Parsed(body) THEN Answering(request, InternalServerError)
       ELSE IF Len(form_data) = 0
         THEN Answering(request, BadRequest("Missing form structure data"))
       ELSE Awaiting(request, [webform_id |-> webform_id, form_data |-> form_data])]
  /\ UNCHANGED <<variant, env, tieBreak, now, database, app_settings, rateLimitMap, admitted,
                 webform_structures, submissions, req, resp>>

\* A save that is tried again after a store failure: the handler stays at its
\* store call instead of answering.
StorePostStructureRetrying(h) ==
  LET r == inflight[h]
  IN
  /\ r.stage = "store"
  /\ r.req.route = "POST structure"
  /\ ~StoreThrows => NewStructureRowid <= MaxSaves
  /\ IF StoreThrows THEN
       /\ inflight' = [inflight EXCEPT ![h] =
            [stage |-> "store", req |-> r.req, call |-> r.call, retrying |-> TRUE]]
       /\ UNCHANGED webform_structures
     ELSE
       /\ webform_structures' = saveWebformStructure(r.call.webform_id, r.call.form_data)
       /\ inflight' = [inflight EXCEPT ![h] =
            Answering(r.req, [code |-> 200, success |-> TRUE,
                              webform_id |-> r.call.webform_id, id |-> NewStructureRowid])]
  /\ UNCHANGED <<variant, env, tieBreak, now, database, app_settings, rateLimitMap, admitted,
                 submissions, req, resp>>

\* The INSERT OR REPLACE of a waiting save is executed (or throws).
StorePostStructure(h) ==
  LET r == inflight[h]
  IN
  /\ r.stage = "store"
  /\ r.req.route = "POST structure"
  /\ ~StoreThrows => NewStructureRowid <= MaxSaves
  /\ IF StoreThrows THEN
       /\ inflight' = [inflight EXCEPT ![h] = Answering(r.req, InternalServerError)]
       /\ UNCHANGED webform_structures
     ELSE
       /\ webform_structures' = saveWebformStructure(r.call.webform_id, r.call.form_data)
       /\ inflight' = [inflight EXCEPT ![h] =
            Answering(r.req, [code |-> 200, success |-> TRUE,
                              webform_id |-> r.call.webform_id, id |-> NewStructureRowid])]
  /\ UNCHANGED <<variant, env, tieBreak, now, database, app_settings, rateLimitMap, admitted,
                 submissions, req, resp>>

\* POST /api/webform/:webform_id/submission up to `await dbOps.createSubmission`:
\* the id and the timestamp member are made before the store is called.
ReceivePostSubmission(h, authToken, webform_id, body, suffix) ==
  LET form_id == SubmissionFormId(webform_id)
      has == Parsed(body) /\ "submission_data" \in Keys(BodyObject(body))
      submission_data == GetKey(BodyObject(body), "submission_data").s
      submissionId == SubmissionId(form_id, suffix)
      request == GateRequest(env.SUBMISSION_SECRET, authToken, "POST submission",
                             [webform_id |-> webform_id, body |-> body, suffix |-> suffix])
  IN
  /\ inflight[h] = Idle
  /\ inflight' = [inflight EXCEPT ![h] =
       IF ~authenticateSubmission(authToken) THEN Answering(request, Unauthorized)
       ELSE IF ~Parsed(body) THEN Answering(request, InternalServerError)
       ELSE IF form_id = Undefined \/ ~has
         THEN Answering(request, BadRequest("Missing form_id or submission_data"))
       ELSE Awaiting(request,
                     [submissionId |-> submissionId, form_id |-> form_id,
                      data |-> submissionWithTimestamp(submission_data, submissionId)])]
  /\ UNCHANGED <<variant, env, tieBreak, now, database, app_settings, rateLimitMap, admitted,
                 webform_structures, submissions, req, resp>>

\* The INSERT of a waiting enqueue is executed (or throws: store failure, or
\* the UNIQUE constraint on submission_id).
StorePostSubmission(h) ==
  LET r == inflight[h]
      fails == StoreThrows \/ UniqueViolation(r.call.submissionId)
  IN
  /\ r.stage = "store"
  /\ r.req.route = "POST submission"
  /\ ~fails => Len(submissions) < MaxSubs
  /\ IF fails THEN
       /\ inflight' = [inflight EXCEPT ![h] = Answering(r.req, InternalServerError)]
       /\ UNCHANGED submissions
     ELSE
       /\ submissions' = createSubmission(r.call.submissionId, r.call.form_id, r.call.data)
       /\ inflight' = [inflight EXCEPT ![h] =
            Answering(r.req, [code |-> 200, success |-> TRUE,
                              submission_id |-> r.call.submissionId,
                              db_id |-> Len(submissions) + 1])]
  /\ UNCHANGED <<variant, env, tieBreak, now, database, app_settings, rateLimitMap, admitted,
                 webform_structures, req, resp>>

\* GET /api/submissions/pending up to `await dbOps.getSubmissionsByStatus`.
ReceiveGetPending(h, authToken, limitParam) ==
  LET request == GateRequest(env.WEBHOOK_SECRET, authToken, "GET pending",
                             [limit |-> limitParam])
  IN
  /\ inflight[h] = Idle
  /\ inflight' = [inflight EXCEPT ![h] =
       IF ~authenticateWebhook(authToken) THEN Answering(request, Unauthorized)
       ELSE Awaiting(request, [authToken |-> authToken, limit |-> limitParam])]
  /\ UNCHANGED <<variant, env, tieBreak, now, database, app_settings, rateLimitMap, admitted,
                 webform_structures, submissions, req, resp>>

\* The SELECT of a waiting drain is executed (or throws).
StoreGetPending(h) ==
  LET r == inflight[h]
  IN
  /\ r.stage = "store"
  /\ r.req.route = "GET pending"
  /\ inflight' = [inflight EXCEPT ![h] =
       Answering(r.req, GetPendingResponse(r.call.authToken, r.call.limit))]
  /\ UNCHANGED <<variant, env, tieBreak, now, database, app_settings, rateLimitMap, admitted,
                 webform_structures, submissions, req, resp>>

\* PATCH /api/submissions/:id/status up to `await dbOps.updateSubmissionStatus`:
\* sentAt is taken from the clock before the store is called.
ReceivePatchStatus(h, authToken, idParam, body) ==
  LET status == GetKey(BodyObject(body), "status").s
      error_message == GetKey(BodyObject(body), "error_message").s
      sentAt == IF status = "sent" THEN ToISOString(now) ELSE NULL
      request == GateRequest(env.WEBHOOK_SECRET, authToken, "PATCH status",
                             [id |-> idParam, body |-> body])
  IN
  /\ inflight[h] = Idle
  /\ inflight' = [inflight EXCEPT ![h] =
       IF ~authenticateWebhook(authToken) THEN Answering(request, Unauthorized)
       ELSE IF ~Parsed(body) THEN Answering(request, InternalServerError)
       ELSE IF ~ValidStatus(status)
         THEN Answering(request,
                        BadRequest("Invalid status. Must be: sent, failed, or processing"))
       ELSE Awaiting(request, [id |-> ParseInt(idParam), status |-> status,
                               error_message |-> error_message, sentAt |-> sentAt])]
  /\ UNCHANGED <<variant, env, tieBreak, now, database, app_settings, rateLimitMap, admitted,
                 webform_structures, submissions, req, resp>>

\* The UPDATE of a waiting status update is executed (or throws).
StorePatchStatus(h) ==
  LET r == inflight[h]
      updated == updateSubmissionStatus(r.call.id, r.call.status, r.call.error_message,
                                        r.call.sentAt)
  IN
  /\ r.stage = "store"
  /\ r.req.route = "PATCH status"
  /\ ~StoreThrows => \A i \in 1..Len(updated) : updated[i].retry_count <= MaxRetry
  /\ IF StoreThrows THEN
       /\ inflight' = [inflight EXCEPT ![h] = Answering(r.req, InternalServerError)]
       /\ UNCHANGED submissions
     ELSE
       /\ submissions' = updated
       /\ inflight' = [inflight EXCEPT ![h] =
            Answering(r.req, [code |-> 200, success |-> TRUE, status |-> r.call.status,
                              id |-> r.call.id])]
  /\ UNCHANGED <<variant, env, tieBreak, now, database, app_settings, rateLimitMap, admitted,
                 webform_structures, req, resp>>

\* The handler sends its answer.
Respond(h) ==
  /\ inflight[h].stage = "respond"
  /\ req' = inflight[h].req
  /\ resp' = inflight[h].resp
  /\ inflight' = [inflight EXCEPT ![h] = Idle]
  /\ UNCHANGED <<variant, env, tieBreak, now, database, app_settings, rateLimitMap, admitted,
                 webform_structures, submissions>>

\* --------------------------------------------------- rate limiting (Worker)
\* The text of a non-negative integer, as template interpolation writes it.
RECURSIVE DecimalDigits(_)
DecimalDigits(n) ==
  IF n < 10 THEN <<Digits[n + 1]>>
  ELSE DecimalDigits(n \div 10) \o <<Digits[(n % 10) + 1]>>

\* `Math.floor(Date.now() / (15 * 60 * 1000))`
currentWindow == DateNow \div WindowMs

\* A caller address (CF-Connecting-IP or X-Forwarded-For) and a key of
\* rateLimitMap are texts, held as the sequence of pieces k.split(':') cuts
\* them into; a piece is a sequence of characters.
\* A key that leaves the window out, so that one counter serves every window.
RateKeyOfAddress(ip) == Append(ip, DecimalDigits(0))

\* `${ip}:${window}`
RateKey(ip) == Append(ip, DecimalDigits(currentWindow))

\* `rateLimitMap.get(key) || 0`
RateCount(key) == IF key \in DOMAIN rateLimitMap THEN rateLimitMap[key] ELSE 0

MapSet(map, key, value) ==
  [k \in DOMAIN map \cup {key} |-> IF k = key THEN value ELSE map[k]]

\* `const [, window] = k.split(':'); parseInt(window) < currentWindow - 1`:
\* the second piece of the key is read as its window. (NaN < n is false.)
Stale(k) ==
  LET window == ParseInt(k[2])
  IN ~window.nan /\ window.n < currentWindow - 1

\* The clean-up that runs after the counter is written.
Prune(map) ==
  IF Cardinality(DOMAIN map) > PruneSize
    THEN [k \in {x \in DOMAIN map : ~Stale(x)} |-> map[k]]
    ELSE map

TooManyRequests ==
  [code |-> 429, error |-> "Too many requests from this IP, please try again later."]
EndpointNotFound == [code |-> 404, error |-> "Endpoint not found"]

Admitted(ip, window) ==
  IF <<ip, window>> \in DOMAIN admitted THEN admitted[<<ip, window>>] ELSE 0

\* The addresses that send requests.
Teredo == << <<"2", "0", "0", "1">>, <<"0">>, <<"4", "1", "3", "7">>, <<"9", "e", "7", "6">>,
             <<"0">>, <<"0">>, <<"0">>, <<"1">> >>
IPv4 == << <<"1", "9", "8", ".", "5", "1", ".", "1", "0", "0", ".", "7">> >>
Callers == {Teredo, IPv4}

\* The bound on the traffic: every address may send MaxBurst requests in a
\* window; more only in its first window and while no other address has sent
\* more; nothing after MaxOver admissions beyond the ceiling.
Paced(ip) ==
  /\ Admitted(ip, currentWindow) < RateCeiling + MaxOver
  /\ \/ Admitted(ip, currentWindow) < MaxBurst
     \/ /\ {k \in DOMAIN admitted : k[1] = ip /\ k[2] # currentWindow} = {}
        /\ {k \in DOMAIN admitted : k[1] \in Callers \ {ip} /\ admitted[k] > MaxBurst} = {}

\* A request from address ip to a path no route matches: rateLimit, then the
\* notFound handler.
rateLimit(ip) ==
  LET key == RateKey(ip)
      count == RateCount(key)
  IN
  /\ variant = "worker"
  /\ Paced(ip)
  /\ req' = Request("unknown", TRUE, [ip |-> ip, window |-> currentWindow])
  /\ IF count >= RateCeiling THEN
       /\ resp' = TooManyRequests
       /\ UNCHANGED <<rateLimitMap, admitted>>
     ELSE
       /\ rateLimitMap' = Prune(MapSet(rateLimitMap, key, count + 1))
       /\ admitted' = MapSet(admitted, <<ip, currentWindow>>,
                             Admitted(ip, currentWindow) + 1)
       /\ resp' = EndpointNotFound
  /\ UNCHANGED <<variant, inflight, env, tieBreak, now, database, app_settings,
                 webform_structures, submissions>>

\* The clock passes into the next 15-minute window.
NextWindow ==
  /\ currentWindow < MaxWindow
  /\ now' = (currentWindow + 1) * WindowMs
  /\ UNCHANGED <<variant, inflight, env, tieBreak, database, app_settings, rateLimitMap, admitted,
                 webform_structures, submissions, req, resp>>

\* ------------------------------------------------------------ request bodies
StructureBodies == {NoBody} \cup {Body(d) : d \in StructureDocs}

WebhookData == {Missing} \cup {Some(d) : d \in StructureDocs}

SubmissionBodies ==
  {NoBody, Body(EmptyObject)}
    \cup {Body(<<Field("submission_data", Obj(d))>>) : d \in SubmissionDocs}

PatchBodies ==
  {NoBody, Body(EmptyObject),
   Body(<<Field("status", Str("failed")), Field("error_message", Str("boom"))>>)}
    \cup {Body(<<Field("status", Str(st))>>) : st \in StatusInputs \ {Undefined}}

SettingBodies ==
  {NoBody, Body(EmptyObject),
   Body(<<Field("key", Str("theme"))>>),
   Body(<<Field("key", Str("theme")), Field("value", Str("dark"))>>),
   Body(<<Field("key", Str("app_name")), Field("value", Str("Forms")),
          Field("description", Str("name")), Field("data_type", Str("string"))>>)}

FilterBodies ==
  {NoBody, Body(EmptyObject),
   Body(<<Field("status", Str("pending"))>>),
   Body(<<Field("form_id", Str("F")), Field("limit", Str(<<"1">>))>>),
   Body(<<Field("start_date", Num(1)), Field("end_date", Num(1))>>),
   Body(<<Field("status", Str(""))>>),
   Body(<<Field("limit", Str(<<"-", "1">>))>>)}

\* ------------------------------------------------------------ specification
Next ==
  \/ \E d \in {1, MsPerSecond} : Tick(d)
  \/ \E t \in Tokens, f \in Forms, b \in StructureBodies : PostStructure(t, f, b)
  \/ \E t \in Tokens, f \in Forms \cup {Undefined}, d \in WebhookData : PostWebhook(t, f, d)
  \/ \E f \in Forms : GetStructure(f)
  \/ \E t \in Tokens, f \in Forms, b \in SubmissionBodies, x \in Suffixes :
       PostSubmission(t, f, b, x)
  \/ \E t \in Tokens, b \in FilterBodies : PostFilteredList(t, b)
  \/ \E t \in Tokens, l \in LimitParams : GetPending(t, l)
  \/ \E t \in Tokens, i \in IdParams, b \in PatchBodies : PatchStatus(t, i, b)

Spec == Init /\ [][Next]_vars

\* The structure cache alone: the requests that read or write webform_structures.
NextStructures ==
  \/ \E d \in {1, MsPerSecond} : Tick(d)
  \/ \E t \in Tokens, f \in Forms, b \in StructureBodies : PostStructure(t, f, b)
  \/ \E t \in Tokens, f \in Forms \cup {Undefined}, d \in WebhookData : PostWebhook(t, f, d)
  \/ \E f \in Forms : GetStructure(f)

SpecStructures == Init /\ [][NextStructures]_vars

\* Enqueue alone, with every form id, caller document, suffix and token, in
\* every configuration; the collector only drains.
NextEnqueue ==
  \/ \E d \in {1, MsPerSecond} : Tick(d)
  \/ \E t \in Tokens, f \in Forms, b \in SubmissionBodies, x \in Suffixes :
       PostSubmission(t, f, b, x)
  \/ \E t \in Tokens : GetPending(t, <<>>)

SpecEnqueue == Init /\ [][NextEnqueue]_vars

\* The life of queued submissions: one form and one caller document, every
\* limit, id and status, with both secrets unset.
InitQueue ==
  /\ Init
  /\ env = [WEBHOOK_SECRET |-> Undefined, SUBMISSION_SECRET |-> Undefined]

NextQueue ==
  \/ \E d \in {1, MsPerSecond} : Tick(d)
  \/ \E b \in SubmissionBodies : PostSubmission(Undefined, "F", b, "k3x9q")
  \/ \E b \in FilterBodies : PostFilteredList(Undefined, b)
  \/ \E l \in LimitParams : GetPending(Undefined, l)
  \/ \E i \in IdParams, b \in PatchBodies : PatchStatus(Undefined, i, b)

SpecQueue == InitQueue /\ [][NextQueue]_vars

\* The three read routes with every token, limit and filter, in every
\* configuration, over stores filled by one structure document, one
\* submission document and the status updates of the first submission.
NextReads ==
  \/ \E d \in {1, MsPerSecond} : Tick(d)
  \/ PostStructure(WebhookToken, "F", Body(D1))
  \/ PostSubmission(SubmissionToken, "F", Body(<<Field("submission_data", Obj(S1))>>),
                    "k3x9q")
  \/ \E st \in {"processing", "failed"} :
       PatchStatus(WebhookToken, <<"1">>, Body(<<Field("status", Str(st))>>))
  \/ \E f \in Forms : GetStructure(f)
  \/ \E t \in Tokens, l \in LimitParams : GetPending(t, l)
  \/ \E t \in Tokens, b \in FilterBodies : PostFilteredList(t, b)

SpecReads == Init /\ [][NextReads]_vars

\* The two gates: every gated route with every token, in every configuration
\* of the two secrets (none, both, either one).
Environments ==
  [WEBHOOK_SECRET : {Undefined, WebhookToken}, SUBMISSION_SECRET : {Undefined, SubmissionToken}]

InitGates ==
  /\ Started
  /\ env \in Environments

NextGates ==
  \/ \E t \in GateTokens : PostStructure(t, "F", Body(D1))
  \/ \E t \in GateTokens : PostWebhook(t, "G", Some(D2))
  \/ \E t \in GateTokens :
       PostSubmission(t, "F", Body(<<Field("submission_data", Obj(S1))>>), "k3x9q")
  \/ \E t \in GateTokens : PostFilteredList(t, Body(EmptyObject))
  \/ \E t \in GateTokens : GetPending(t, <<>>)
  \/ \E t \in GateTokens, st \in {"sent", "failed"} :
       PatchStatus(t, <<"1">>, Body(<<Field("status", Str(st))>>))
  \/ \E t \in GateTokens : GetSettings(t)
  \/ \E t \in GateTokens :
       PostSettings(t, Body(<<Field("key", Str("theme")), Field("value", Str("dark"))>>))
  \/ \E t \in GateTokens : GetAnalyticsSubmissions(t)
  \/ \E t \in GateTokens, u \in ApiUsageTables : GetAnalyticsApiUsage(t, <<>>, u)
  \/ \E t \in GateTokens, l \in ErrorLogTables : GetLogsErrors(t, <<>>, l)

SpecGates == InitGates /\ [][NextGates]_vars


\* The Worker's rate limiter: two addresses, one written with ':', over the
\* windows 0..MaxWindow. The Worker starts with an empty map, or is met after
\* PruneSize other addresses have each sent one request in window CrowdWindow.
CrowdWindow == 1
CrowdAddress(i) ==
  << <<"1", "0", ".", "0", ".">> \o DecimalDigits(i \div 250) \o <<".">>
       \o DecimalDigits(i % 250) >>
CrowdKeys == {Append(CrowdAddress(i), DecimalDigits(CrowdWindow)) : i \in 1..PruneSize}

InitRateLimit ==
  /\ variant = "worker"
  /\ env = [WEBHOOK_SECRET |-> Undefined, SUBMISSION_SECRET |-> Undefined]
  /\ tieBreak = "rowid_asc"
  /\ webform_structures = {}
  /\ submissions = <<>>
  /\ req = [route |-> "none", authorized |-> FALSE]
  /\ resp = [code |-> 0]
  /\ database = "connected"
  /\ app_settings = {}
  /\ inflight = [h \in Handlers |-> Idle]
  /\ \/ /\ now = 0
        /\ rateLimitMap = <<>>
        /\ admitted = <<>>
     \/ /\ now = (CrowdWindow + 1) * WindowMs
        /\ rateLimitMap = [k \in CrowdKeys |-> 1]
        /\ admitted = [k \in {<<CrowdAddress(i), CrowdWindow>> : i \in 1..PruneSize} |-> 1]

NextRateLimit ==
  \/ NextWindow
  \/ \E ip \in Callers : rateLimit(ip)

SpecRateLimit == InitRateLimit /\ [][NextRateLimit]_vars

\* The store failing and recovering under the routes that use it.
NextStore ==
  \/ StoreGoesDown
  \/ StoreComesBack
  \/ GetHealth
  \/ \E f \in Forms : GetStructure(f)
  \/ \E b \in {Body(D1), Body(D2)} : PostStructure(WebhookToken, "F", b)
  \/ PostWebhook(WebhookToken, "F", Some(D1))
  \/ PostSubmission(SubmissionToken, "F", Body(<<Field("submission_data", Obj(S1))>>),
                    "k3x9q")
  \/ PostFilteredList(SubmissionToken, Body(EmptyObject))
  \/ GetPending(WebhookToken, <<>>)
  \/ \E st \in {"sent", "failed"} :
       PatchStatus(WebhookToken, <<"1">>, Body(<<Field("status", Str(st))>>))
  \/ GetSettings(WebhookToken)
  \/ \E b \in SettingBodies : PostSettings(WebhookToken, b)
  \/ GetAnalyticsSubmissions(WebhookToken)
  \/ \E u \in ApiUsageTables : GetAnalyticsApiUsage(WebhookToken, <<>>, u)
  \/ \E l \in ErrorLogTables : GetLogsErrors(WebhookToken, <<>>, l)

SpecStore == Init /\ [][NextStore]_vars

\* The two routes that validate a document, with every body (none, the empty
\* object, a document) and every token.
NextValidation ==
  \/ \E t \in Tokens, b \in StructureBodies : PostStructure(t, "F", b)
  \/ \E t \in Tokens, b \in SubmissionBodies : PostSubmission(t, "F", b, "k3x9q")

SpecValidation == Init /\ [][NextValidation]_vars

\* The life of stored submissions under every kind of operation: enqueues,
\* status updates of every row, the read routes, a structure save, a setting,
\* /health and a store that fails and recovers; both secrets unset.
LifecycleBodies ==
  {Body(<<Field("status", Str("failed")), Field("error_message", Str("boom"))>>)}
    \cup {Body(<<Field("status", Str(st))>>) : st \in {"sent", "failed", "processing", "pending"}}

NextLifecycle ==
  \/ \E x \in Suffixes :
       PostSubmission(Undefined, "F", Body(<<Field("submission_data", Obj(S1))>>), x)
  \/ \E i \in {<<"1">>, <<"2">>}, b \in LifecycleBodies : PatchStatus(Undefined, i, b)
  \/ GetPending(Undefined, <<>>)
  \/ PostFilteredList(Undefined, Body(EmptyObject))
  \/ PostStructure(Undefined, "F", Body(D1))
  \/ PostSettings(Undefined, Body(<<Field("key", Str("theme")), Field("value", Str("dark"))>>))
  \/ GetHealth
  \/ StoreGoesDown
  \/ StoreComesBack

SpecLifecycle == InitQueue /\ [][NextLifecycle]_vars

\* Two handlers serving saves at once: both documents on one form id, a save
\* to another id, and a store that fails and recovers; both secrets unset.
NextConcurrentSaves ==
  \/ \E h \in Handlers, d \in {D1, D2} : ReceivePostStructure(h, Undefined, "F", Body(d))
  \/ \E h \in Handlers : ReceivePostStructure(h, Undefined, "G", Body(D1))
  \/ \E h \in Handlers : ReceivePostStructure(h, Undefined, "F", Body(EmptyObject))
  \/ \E h \in Handlers : StorePostStructure(h)
  \/ \E h \in Handlers : Respond(h)
  \/ GetStructure("F")
  \/ StoreGoesDown
  \/ StoreComesBack

SpecConcurrentSaves == InitQueue /\ [][NextConcurrentSaves]_vars

\* Concurrent enqueues of two requests with different documents, in the same
\* and in different milliseconds, with equal and with different suffixes.
EnqueueBodies == {Body(<<Field("submission_data", Obj(d))>>) : d \in {S1, D1}}

NextConcurrentEnqueue ==
  \/ Tick(1)
  \/ \E h \in Handlers, b \in EnqueueBodies, x \in Suffixes :
       ReceivePostSubmission(h, Undefined, "F", b, x)
  \/ \E h \in Handlers : ReceivePostSubmission(h, Undefined, "F", Body(EmptyObject), "k3x9q")
  \/ \E h \in Handlers : StorePostSubmission(h)
  \/ \E h \in Handlers : Respond(h)
  \/ StoreGoesDown
  \/ StoreComesBack

SpecConcurrentEnqueue == InitQueue /\ [][NextConcurrentEnqueue]_vars

\* Two collectors drain concurrently while submissions arrive and are advanced.
NextConcurrentDrain ==
  \/ Tick(MsPerSecond)
  \/ PostSubmission(Undefined, "F", Body(<<Field("submission_data", Obj(S1))>>), "k3x9q")
  \/ \E h \in Handlers, l \in {<<>>, <<"1">>} : ReceiveGetPending(h, Undefined, l)
  \/ \E h \in Handlers : StoreGetPending(h)
  \/ \E h \in Handlers : Respond(h)
  \/ \E i \in {<<"1">>, <<"2">>} : PatchStatus(Undefined, i, Body(<<Field("status", Str("sent"))>>))
  \/ StoreGoesDown
  \/ StoreComesBack

SpecConcurrentDrain == InitQueue /\ [][NextConcurrentDrain]_vars

\* Saves, enqueues and status updates in flight while the store goes down
\* and comes back.
NextStoreFailure ==
  \/ \E h \in Handlers : ReceivePostStructure(h, Undefined, "F", Body(D1))
  \/ \E h \in Handlers : StorePostStructure(h)
  \/ \E h \in Handlers :
       ReceivePostSubmission(h, Undefined, "F", Body(<<Field("submission_data", Obj(S1))>>),
                             "k3x9q")
  \/ \E h \in Handlers : StorePostSubmission(h)
  \/ \E h \in Handlers, st \in {"sent", "failed"} :
       ReceivePatchStatus(h, Undefined, <<"1">>, Body(<<Field("status", Str(st))>>))
  \/ \E h \in Handlers : StorePatchStatus(h)
  \/ \E h \in Handlers : Respond(h)
  \/ StoreGoesDown
  \/ StoreComesBack

SpecStoreFailure == InitQueue /\ [][NextStoreFailure]_vars

\* ------------------------------------------------------------ logging writes
\* How a call ends.
Returns == "returns"
Throws == "throws"

\* dbOps.logError and dbOps.logApiUsage: one INSERT each, which throws when
\* the store is unreachable or the INSERT itself fails.
dbOpsLogError(insertFails) == IF insertFails \/ StoreThrows THEN Throws ELSE Returns
dbOpsLogApiUsage(insertFails) == IF insertFails \/ StoreThrows THEN Throws ELSE Returns

\* A logError without its try/catch: the exception of the INSERT leaves it.
logErrorUncaught(insertFails) == dbOpsLogError(insertFails)

\* logError: the INSERT runs inside try; the catch writes to the console.
logError(insertFails) ==
  IF dbOpsLogError(insertFails) = Throws THEN Returns ELSE Returns

\* What the caller gets when an exception leaves a gate, a handler's catch or
\* the 404 handler: the Worker's app.onError answers 500; an Express async
\* middleware that rejects sends nothing.
Unhandled == IF variant = "worker" THEN InternalServerError ELSE [code |-> 0]

\* `await logError(...); return <response>`
AfterLogError(insertFails, response) ==
  IF logError(insertFails) = Throws THEN Unhandled ELSE response

\* The request-logging middleware: logApiUsage runs inside try after the
\* response is made (Worker) or sent (Express); the catch writes to the console.
requestLogging(response, insertFails) ==
  IF dbOpsLogApiUsage(insertFails) = Throws THEN response ELSE response

\* The response the gate or the handler of a route chooses.
Chosen(route, authToken, webform_id) ==
  CASE route = "GET structure" -> GetStructureResponse(webform_id)
    [] route = "GET pending" -> GetPendingResponse(authToken, <<>>)
    [] OTHER -> EndpointNotFound

\* The responses that are preceded by a call of logError: the 401 of a gate,
\* the 500 of a handler's catch and the 404 of the notFound handler.
CallsLogError(route, response) == response.code \in {401, 500} \/ route = "unknown"

LoggedRoutes == {"GET structure", "GET pending", "unknown"}

\* A request through the request-logging middleware, the gate and the
\* handler, with the outcome of the two logging INSERTs.
LoggedRequest(route, authToken, webform_id, errorLogFails, apiUsageFails) ==
  LET chosen == Chosen(route, authToken, webform_id)
  IN
  /\ req' = [route |-> route, authorized |-> chosen.code # 401, token |-> authToken,
             webform_id |-> webform_id,
             errorLogFails |-> errorLogFails, apiUsageFails |-> apiUsageFails]
  /\ resp' = requestLogging(IF CallsLogError(route, chosen)
                              THEN AfterLogError(errorLogFails, chosen)
                              ELSE chosen,
                            apiUsageFails)
  /\ UNCHANGED <<variant, inflight, env, tieBreak, now, database, app_settings, rateLimitMap,
                 admitted, webform_structures, submissions>>

NextLogging ==
  \/ \E r \in LoggedRoutes, t \in {Undefined, WebhookToken}, e \in BOOLEAN, u \in BOOLEAN :
       LoggedRequest(r, t, "F", e, u)
  \/ PostStructure(WebhookToken, "F", Body(D1))
  \/ PostSubmission(SubmissionToken, "F", Body(<<Field("submission_data", Obj(S1))>>),
                    "k3x9q")
  \/ StoreGoesDown
  \/ StoreComesBack

SpecLogging == Init /\ [][NextLogging]_vars

\* ================================================================== claims
\* The routes behind authenticateWebhook and behind authenticateSubmission.
WebhookRoutes ==
  {"POST structure", "POST webhook", "GET pending", "PATCH status", "GET settings",
   "POST settings", "GET analytics submissions", "GET analytics api-usage",
   "GET logs errors"}
SubmissionRoutes == {"POST submission", "POST submissions"}

\* The secret of the gate in front of a route.
SecretOf(route) ==
  IF route \in WebhookRoutes THEN env.WEBHOOK_SECRET ELSE env.SUBMISSION_SECRET

\* A step that is a successful save of document doc as the structure of form f
\* (through POST structure or through the Worker's POST /api/webhook).
SavedStructure(f, doc) ==
  /\ webform_structures' # webform_structures
  /\ resp'.code = 200
  /\ \/ /\ req'.route = "POST structure"
        /\ req'.input.webform_id = f
        /\ req'.input.body.json = doc
     \/ /\ req'.route = "POST webhook"
        /\ req'.input.form_id = f
        /\ req'.input.submission_data.val = doc

SavesTo(f) == \E doc \in StructureDocs : SavedStructure(f, doc)

\* C1: round trip. A successful POST of a non-empty document D to
\* /api/webform/F/structure makes GET /api/webform/F/structure answer 200 with
\* structure = D, and every step that is no save to F leaves the answer of that
\* GET as it was (so the GET returns D until the next save to F).
C1_RoundTrip ==
  [][\A f \in Forms :
       /\ \A doc \in StructureDocs \ {EmptyObject} :
            (SavedStructure(f, doc) /\ req'.route = "POST structure") =>
              /\ GetStructureResponse(f)'.code = 200
              /\ GetStructureResponse(f)'.structure = doc
       /\ ~SavesTo(f) => GetStructureResponse(f)' = GetStructureResponse(f)]_vars

\* A GET that returns a saved document while another form has been saved too.
C1_Witness ==
  /\ req.route = "GET structure"
  /\ resp.code = 200
  /\ resp.structure = D1
  /\ Cardinality(webform_structures) = 2

RowsOf(f) == {r \in webform_structures : r.webform_id = f}

\* C2: the table holds at most one structure per form id; a successful save to
\* form f leaves exactly one row for f, whose document is the saved one whole
\* (no key of the earlier document survives), and leaves the rows of every
\* other form id as they were.
C2_Overwrite ==
  /\ [](\A f \in Forms : Cardinality(RowsOf(f)) <= 1)
  /\ [][\A f \in Forms, doc \in StructureDocs :
          SavedStructure(f, doc) =>
            /\ \A r \in RowsOf(f)' : JSONParse(r.structure_data) = doc
            /\ Cardinality(RowsOf(f)') = 1
            /\ GetStructureResponse(f)'.structure = doc
            /\ \A g \in Forms \ {f} : RowsOf(g)' = RowsOf(g)]_vars

\* A second save to F, with a document of other keys, while G holds a structure.
C2_Witness ==
  /\ req.route = "POST structure"
  /\ resp.code = 200
  /\ resp.id = 3
  /\ req.input.webform_id = "F"
  /\ req.input.body.json = D2
  /\ \E r \in webform_structures : r.webform_id = "G"

\* The last request was a submission the gate let through, whose body was read
\* and carries submission_data.
AcceptableSubmission ==
  /\ req.route = "POST submission"
  /\ req.authorized
  /\ req.input.body.present
  /\ "submission_data" \in Keys(req.input.body.json)

RowsWithId(submissionId) ==
  {i \in 1..Len(submissions) : submissions[i].submission_id = submissionId}

\* C3: a POST to /api/webform/{id}/submission that passes the gate and carries
\* submission_data is answered 200 with a generated id, and the store holds
\* exactly one submission of that id, with form_id = {id}, status pending and
\* retry_count 0 -- in the Express server and in the Worker.
C3_EnqueueSucceeds ==
  AcceptableSubmission =>
    /\ resp.code = 200
    /\ Cardinality(RowsWithId(resp.submission_id)) = 1
    /\ \A i \in RowsWithId(resp.submission_id) :
         /\ i = Len(submissions)
         /\ submissions[i].form_id = req.input.webform_id
         /\ submissions[i].status = "pending"
         /\ submissions[i].retry_count = 0

\* The instants the clock can show.
ClockValues ==
  {t \in 0..(MsPerSecond * MaxTicks) :
     (t % MsPerSecond) + (t \div MsPerSecond) <= MaxTicks}

ServerTimestamps == {Str(ToISOString(t)) : t \in ClockValues}

HasIdForm(submissionId, formId) ==
  \E t \in ClockValues, x \in Suffixes :
    submissionId = formId \o "_" \o ToString(t) \o "_" \o x

\* C4: in every stored submission the timestamp member of the data is a
\* server clock reading and the submission_id member is the row's
\* submission_id column, whatever the caller's submission_data carried; the id
\* has the form {form_id}_{epoch millis}_{suffix}, and the id answered to the
\* caller is the id of the row just added.
C4_ServerAssigned ==
  /\ \A i \in 1..Len(submissions) :
       LET row == submissions[i]
           data == JSONParse(row.submission_data)
       IN /\ GetKey(data, "timestamp") \in ServerTimestamps
          /\ GetKey(data, "submission_id") = Str(row.submission_id)
          /\ HasIdForm(row.submission_id, row.form_id)
  /\ (req.route = "POST submission" /\ resp.code = 200) =>
       /\ submissions[Len(submissions)].submission_id = resp.submission_id
       /\ resp.db_id = Len(submissions)

\* An accepted submission whose caller supplied its own timestamp and
\* submission_id.
C4_Witness ==
  /\ AcceptableSubmission
  /\ resp.code = 200
  /\ GetKey(req.input.body.json, "submission_data").s = S2
  /\ Len(submissions) = 2

\* The last request was a drain that was answered.
Drained == req.route = "GET pending" /\ resp.code = 200

Returned == {resp.submissions[i].id : i \in 1..Len(resp.submissions)}

PendingIds == {r.id : r \in {x \in Rows(submissions) : x.status = "pending"}}

\* C5: a drain returns pending submissions in creation order (rowid order):
\* the ids it lists ascend, and it returns no submission without every pending
\* submission enqueued before it -- also for submissions created within one
\* second of created_at.
C5_CreationOrder ==
  Drained =>
    /\ \A i, j \in 1..Len(resp.submissions) :
         i < j => resp.submissions[i].id < resp.submissions[j].id
    /\ \A b \in Returned : \A a \in PendingIds : a < b => a \in Returned

\* C6: a drain whose limit parses to a non-zero integer N returns at most N
\* submissions, exactly min(N, number pending); with the limit absent, zero or
\* not a number it returns at most 100; every returned submission is pending
\* and count is the length of the list.
C6_LimitRespected ==
  Drained =>
    LET p == ParseInt(req.input.limit)
        n == Len(resp.submissions)
    IN /\ (~p.nan /\ p.n # 0) => (n <= p.n /\ n = Min(p.n, Cardinality(PendingIds)))
       /\ (p.nan \/ p.n = 0) => n <= DefaultLimit
       /\ Returned \subseteq PendingIds
       /\ resp.count = n

\* The routes that only read.
ReadRoutes == {"GET pending", "GET structure", "POST submissions"}

C8_DrainClears ==
  Drained => \A r \in Rows(submissions) : r.id \in Returned => r.status # "pending"

\* pending -> processing -> {sent | failed}
AllowedTransitions ==
  {<<"pending", "processing">>, <<"processing", "sent">>, <<"processing", "failed">>}

\* C9: every change of a stored submission's status is one of pending ->
\* processing, processing -> sent, processing -> failed.
C9_StateMachine ==
  [][\A i \in 1..Len(submissions) :
       submissions'[i].status # submissions[i].status =>
         <<submissions[i].status, submissions'[i].status>> \in AllowedTransitions]_vars

\* The last request was a status update that passed the gate, whose body was
\* read, and whose status is none of sent, failed, processing.
InvalidStatusUpdate ==
  /\ req.route = "PATCH status"
  /\ req.authorized
  /\ Parsed(req.input.body)
  /\ ~(GetKey(BodyObject(req.input.body), "status").s \in {"sent", "failed", "processing"})

AcceptedUpdate ==
  /\ req'.route = "PATCH status"
  /\ resp'.code = 200
  /\ now' = now

\* C11: an accepted status update of submission id changes that submission
\* alone: its status becomes the status sent, 'sent' sets sent_at to the
\* timestamp of the request, 'failed' adds exactly 1 to retry_count, 'sent'
\* and 'processing' leave retry_count as it was; its identity, form, data and
\* creation time stay. Every other submission, and every submission in a step
\* that is no accepted update, keeps its retry_count: retry_count never
\* decreases and counts the accepted 'failed' updates of the submission.
C11_StatusUpdateEffect ==
  [][\A i \in 1..Len(submissions) :
       LET old == submissions[i]
           new == submissions'[i]
           st == GetKey(BodyObject(req'.input.body), "status").s
       IN IF AcceptedUpdate /\ ParseInt(req'.input.id) = Int32(old.id)
            THEN /\ new.status = st
                 /\ new.retry_count = old.retry_count + (IF st = "failed" THEN 1 ELSE 0)
                 /\ (st = "sent") => (new.sent_at = ToISOString(now) /\ new.sent_at # NULL)
                 /\ new.id = old.id
                 /\ new.submission_id = old.submission_id
                 /\ new.form_id = old.form_id
                 /\ new.submission_data = old.submission_data
                 /\ new.created_at = old.created_at
            ELSE new = old]_vars

\* Submission 1 of two was marked failed and then sent: its retry_count is 1,
\* its sent_at is set, and submission 2 is as it was created.
C11_Witness ==
  /\ req.route = "PATCH status"
  /\ resp.code = 200
  /\ Len(submissions) = 2
  /\ submissions[1].status = "sent"
  /\ submissions[1].retry_count = 1
  /\ submissions[1].sent_at # NULL
  /\ submissions[2].status = "pending"
  /\ submissions[2].retry_count = 0

\* C12: when the secret of a route's gate is configured, a request whose token
\* is missing or differs from it is answered 401 "Unauthorized" and neither
\* saves a structure, creates a submission, changes a status or a setting, nor
\* returns stored data.
C12_RejectedBeforeHandler ==
  [][(/\ req'.route \in WebhookRoutes \cup SubmissionRoutes
      /\ SecretOf(req'.route) # Undefined
      /\ req'.token # SecretOf(req'.route))
       => /\ resp' = Unauthorized
          /\ UNCHANGED <<webform_structures, submissions, app_settings>>]_vars

C12_Witness ==
  /\ req.route = "PATCH status"
  /\ env.WEBHOOK_SECRET # Undefined
  /\ req.token = OtherToken
  /\ resp = Unauthorized
  /\ webform_structures # {}
  /\ Len(submissions) > 0
  /\ \E r \in app_settings : r.key = "theme"

\* C13: the two gates are independent. Whether a request to a gated route is
\* let through depends on the secret of that route's group and the token alone:
\* with both secrets set and different, the submission secret is answered 401
\* by every structure-push route and the webhook secret by every submission
\* route, and a group whose own secret is unset is never answered 401 whatever
\* the other secret is.
C13_GatesIndependent ==
  req.route \in WebhookRoutes \cup SubmissionRoutes =>
    /\ (resp.code = 401) = (SecretOf(req.route) # Undefined /\ req.token # SecretOf(req.route))
    /\ (resp.code = 401) = ~req.authorized
    /\ (/\ env.WEBHOOK_SECRET # Undefined /\ env.SUBMISSION_SECRET # Undefined
        /\ req.route \in WebhookRoutes /\ req.token = env.SUBMISSION_SECRET)
         => resp = Unauthorized
    /\ (/\ env.WEBHOOK_SECRET # Undefined /\ env.SUBMISSION_SECRET # Undefined
        /\ req.route \in SubmissionRoutes /\ req.token = env.WEBHOOK_SECRET)
         => resp = Unauthorized

C13_Witness ==
  /\ env.WEBHOOK_SECRET = WebhookToken
  /\ env.SUBMISSION_SECRET = SubmissionToken
  /\ req.route = "POST submissions"
  /\ req.token = WebhookToken
  /\ resp = Unauthorized
  /\ Len(submissions) > 0

\* C14: a gate whose secret is not configured lets every request through: a
\* request to a route of that group is never answered 401.
C14_UnsetSecretIsOpen ==
  (/\ req.route \in WebhookRoutes \cup SubmissionRoutes
   /\ SecretOf(req.route) = Undefined)
    => req.authorized /\ resp.code # 401

C14_Witness ==
  /\ env.WEBHOOK_SECRET = Undefined
  /\ env.SUBMISSION_SECRET = SubmissionToken
  /\ req.route = "POST settings"
  /\ resp.code = 200
  /\ \E r \in app_settings : r.key = "theme"

\* C15: no address is let through more than RateCeiling times in one window
\* (a request of an address that has been let through RateCeiling times in the
\* current window is rejected, not admitted).
C15_Ceiling == \A k \in DOMAIN admitted : admitted[k] <= RateCeiling

\* C16: a request of an address that has not been let through yet in the
\* current window is let through, however many requests the address made in
\* earlier windows (also when it was at the ceiling and rejected there): the
\* count of an earlier window does not carry over.
C16_FreshWindow ==
  [][(/\ now' = now
      /\ req'.route = "unknown"
      /\ Admitted(req'.input.ip, currentWindow) = 0)
       => /\ resp' = EndpointNotFound
          /\ admitted'[<<req'.input.ip, currentWindow>>] = 1]_vars

C16_Witness ==
  /\ currentWindow > 0
  /\ req.route = "unknown"
  /\ req.input.window = currentWindow
  /\ Admitted(req.input.ip, currentWindow - 1) = RateCeiling
  /\ RateCount(Append(req.input.ip, DecimalDigits(currentWindow - 1))) = RateCeiling
  /\ Admitted(req.input.ip, currentWindow) = 1
  /\ resp = EndpointNotFound

\* The name, message and stack of the exception a failing store call throws.
ExceptionParts == {StoreError.name, StoreError.message, StoreError.stack}

\* C17: the body of a server-error response (5xx) of any endpoint, /health
\* included, contains no part of the exception that caused it.
C17_GenericFailureBody ==
  resp.code >= 500 => \A f \in DOMAIN resp \ {"code"} : resp[f] \notin ExceptionParts

\* C20: while the store is available, GET structure of a form id that has no
\* saved structure is answered 404 with that id in the body.
C20_UnknownFormIs404 ==
  [][(/\ now' = now /\ database' = database
      /\ req'.route = "GET structure"
      /\ database = "connected"
      /\ \A r \in webform_structures : r.webform_id # req'.input.webform_id)
       => /\ resp'.code = 404
          /\ resp'.webform_id = req'.input.webform_id]_vars

C20_Witness ==
  /\ req.route = "GET structure"
  /\ req.input.webform_id = "G"
  /\ resp.code = 404
  /\ resp.webform_id = "G"
  /\ database = "connected"
  /\ \E r \in webform_structures : r.webform_id = "F"

\* C18: a POST structure with no body or with the empty object, and a POST
\* submission without submission_data, are answered 400 and change neither a
\* structure nor a submission, in the Express server and in the Worker.
C18_ValidationRejects ==
  [][(/\ now' = now /\ database' = database
      /\ req'.authorized
      /\ \/ /\ req'.route = "POST structure"
            /\ BodyObject(req'.input.body) = EmptyObject
         \/ /\ req'.route = "POST submission"
            /\ "submission_data" \notin Keys(BodyObject(req'.input.body)))
       => /\ resp'.code = 400
          /\ UNCHANGED <<webform_structures, submissions>>]_vars

\* C19: no stored structure is the empty object.
C19_NoEmptyStructure ==
  \A r \in webform_structures : JSONParse(r.structure_data) # EmptyObject

SaveApplied(h) ==
  /\ inflight[h].stage = "store"
  /\ inflight[h].req.route = "POST structure"
  /\ inflight'[h].stage = "respond"
  /\ inflight'[h].resp.code = 200

\* C22: concurrent saves are serialized, the last write wins. The table of
\* structures changes only in a step that applies the save of one waiting
\* request, and after that step the form id of that request has exactly one
\* row, holding that request's whole document, while the rows of the other
\* form ids are as before: what is stored for an id is always the document of
\* the save applied last, whatever the order of arrival and of the answers.
C22_LastWriteWins ==
  [][/\ \A h \in Handlers :
          SaveApplied(h) =>
            LET f == inflight[h].call.webform_id
                D == inflight[h].call.form_data
            IN /\ Cardinality({r \in webform_structures' : r.webform_id = f}) = 1
               /\ \A r \in webform_structures' :
                    r.webform_id = f => JSONParse(r.structure_data) = D
               /\ {r \in webform_structures' : r.webform_id # f}
                    = {r \in webform_structures : r.webform_id # f}
     /\ webform_structures' # webform_structures => \E h \in Handlers : SaveApplied(h)]_vars

\* Both handlers have had their save of form F applied, h2's after h1's, and
\* neither has answered yet: the row holds h2's document.
C22_Witness ==
  /\ inflight["h1"].stage = "respond" /\ inflight["h2"].stage = "respond"
  /\ inflight["h1"].req.route = "POST structure" /\ inflight["h2"].req.route = "POST structure"
  /\ inflight["h1"].resp.code = 200 /\ inflight["h2"].resp.code = 200
  /\ inflight["h1"].req.input.webform_id = "F" /\ inflight["h2"].req.input.webform_id = "F"
  /\ inflight["h1"].req.input.body = Body(D1) /\ inflight["h2"].req.input.body = Body(D2)
  /\ inflight["h1"].resp.id < inflight["h2"].resp.id
  /\ \A r \in webform_structures : r.webform_id = "F" => JSONParse(r.structure_data) = D2
  /\ Cardinality({r \in webform_structures : r.webform_id = "F"}) = 1

\* The table after the INSERT of a waiting enqueue is executed on it: the
\* UNIQUE constraint on submission_id makes the INSERT fail.
StoreAfter(table, call) ==
  IF \E i \in 1..Len(table) : table[i].submission_id = call.submissionId
    THEN table
    ELSE Append(table, [SubmissionRow(call.submissionId, call.form_id, call.data)
                          EXCEPT !.id = Len(table) + 1])

\* What the caller sent, read back from a stored document: the document
\* without the two members the handler adds.
CallerData(document) ==
  SelectSeq(document, LAMBDA f : f.k \notin {"timestamp", "submission_id"})

\* The (form_id, caller data) pairs of a table of submissions.
StoredPairs(table) ==
  {<<table[i].form_id, CallerData(JSONParse(table[i].submission_data))>> : i \in 1..Len(table)}

\* Handler h waits for the store to execute its enqueue.
EnqueueWaiting(h) ==
  inflight[h].stage = "store" /\ inflight[h].req.route = "POST submission"

\* C23 as stated: whenever two enqueues wait for the store, the stored
\* (form_id, caller data) pairs are the same whichever of the two the store
\* executes first.
C23_OrderIndependent ==
  \A g \in Handlers, h \in Handlers :
    (g # h /\ EnqueueWaiting(g) /\ EnqueueWaiting(h)) =>
      StoredPairs(StoreAfter(StoreAfter(submissions, inflight[g].call), inflight[h].call))
        = StoredPairs(StoreAfter(StoreAfter(submissions, inflight[h].call), inflight[g].call))

\* C23 (amended): the same, for two enqueues whose generated ids differ.
C23_DistinctIdsCommute ==
  \A g \in Handlers, h \in Handlers :
    (/\ g # h /\ EnqueueWaiting(g) /\ EnqueueWaiting(h)
     /\ inflight[g].call.submissionId # inflight[h].call.submissionId) =>
      StoredPairs(StoreAfter(StoreAfter(submissions, inflight[g].call), inflight[h].call))
        = StoredPairs(StoreAfter(StoreAfter(submissions, inflight[h].call), inflight[g].call))

\* An enqueue answered with success has exactly one stored submission, which
\* holds its form id and its document.
C23_SuccessIsStored ==
  \A h \in Handlers :
    (/\ inflight[h].stage = "respond" /\ inflight[h].req.route = "POST submission"
     /\ inflight[h].resp.code = 200) =>
      \E i \in 1..Len(submissions) :
        /\ submissions[i].submission_id = inflight[h].resp.submission_id
        /\ submissions[i].id = inflight[h].resp.db_id
        /\ submissions[i].form_id = inflight[h].req.input.webform_id
        /\ CallerData(JSONParse(submissions[i].submission_data))
             = CallerData(GetKey(BodyObject(inflight[h].req.input.body), "submission_data").s)
        /\ \A j \in 1..Len(submissions) :
             submissions[j].submission_id = submissions[i].submission_id => j = i

\* C23 (amended): enqueue is append-only, and commutative for requests whose
\* generated submission ids differ. In every interleaving of concurrent
\* enqueues, every step leaves the stored submissions in place and unmodified
\* and appends at most one, exactly the store's execution of one waiting
\* enqueue; an enqueue answered with success has exactly one stored
\* submission; and for two waiting enqueues with different ids the stored
\* (form_id, caller data) pairs do not depend on which is executed first.
C23_AppendOnlyCommutative ==
  /\ [](C23_DistinctIdsCommute /\ C23_SuccessIsStored)
  /\ [][/\ SubSeq(submissions', 1, Len(submissions)) = submissions
        /\ Len(submissions') <= Len(submissions) + 1
        /\ \A h \in Handlers :
             (EnqueueWaiting(h) /\ inflight'[h].stage = "respond") =>
               submissions' = IF StoreThrows THEN submissions
                              ELSE StoreAfter(submissions, inflight[h].call)
        /\ submissions' # submissions =>
             \E h \in Handlers : EnqueueWaiting(h) /\ inflight'[h].stage = "respond"]_vars

\* Two enqueues with different documents and different ids were both executed
\* and neither is answered yet: both are stored.
C23_Witness ==
  /\ inflight["h1"].stage = "respond" /\ inflight["h2"].stage = "respond"
  /\ inflight["h1"].req.route = "POST submission" /\ inflight["h2"].req.route = "POST submission"
  /\ inflight["h1"].resp.code = 200 /\ inflight["h2"].resp.code = 200
  /\ inflight["h1"].req.input.body # inflight["h2"].req.input.body
  /\ inflight["h1"].resp.db_id = 2 /\ inflight["h2"].resp.db_id = 1
  /\ Cardinality(StoredPairs(submissions)) = 2

\* C24: no two stored submissions share a submission_id, in every reachable
\* state; and when the store executes an enqueue whose generated id (same form
\* id, same millisecond, same suffix) is already stored, the enqueue is
\* answered with the server error and the stored submissions are unchanged:
\* the earlier one is neither overwritten nor duplicated.
C24_UniqueSubmissionIds ==
  /\ [](\A i \in 1..Len(submissions), j \in 1..Len(submissions) :
          submissions[i].submission_id = submissions[j].submission_id => i = j)
  /\ [][\A h \in Handlers :
          (/\ EnqueueWaiting(h) /\ inflight'[h].stage = "respond"
           /\ inflight[h].call.submissionId
                \in {submissions[i].submission_id : i \in 1..Len(submissions)}) =>
            /\ inflight'[h].resp = InternalServerError
            /\ submissions' = submissions]_vars

\* Two enqueues for form F made in the same millisecond with the same suffix
\* and different documents: the first executed is stored and answered 200, the
\* second is answered 500, and the one row holds the first one's document.
C24_Witness ==
  /\ now = 0
  /\ inflight["h1"].stage = "respond" /\ inflight["h2"].stage = "respond"
  /\ inflight["h1"].req.route = "POST submission" /\ inflight["h2"].req.route = "POST submission"
  /\ inflight["h1"].req.input.suffix = inflight["h2"].req.input.suffix
  /\ inflight["h1"].req.input.body # inflight["h2"].req.input.body
  /\ inflight["h1"].resp.code = 200
  /\ inflight["h2"].resp = InternalServerError
  /\ Len(submissions) = 1
  /\ submissions[1].submission_id = inflight["h1"].resp.submission_id
  /\ JSONParse(submissions[1].submission_data)
       = submissionWithTimestamp(
           GetKey(BodyObject(inflight["h1"].req.input.body), "submission_data").s,
           submissions[1].submission_id)

\* ------------------------------------------------ the collector (delivery)
\* The limits the collector drains with (at least 1).
CollectorLimits == {<<"1">>, <<"2">>}

\* The status updates the collector sends: the three accepted statuses.
CollectorBodies ==
  {Body(<<Field("status", Str(st))>>) : st \in {"sent", "failed", "processing"}}

\* The collector calls GET /api/submissions/pending.
CollectorDrain(limitParam) == GetPending(Undefined, limitParam)

\* The collector advances the status of the k-th submission of the drain it
\* has just received.
CollectorAdvance(k, body) ==
  /\ Drained
  /\ k \in 1..Len(resp.submissions)
  /\ PatchStatus(Undefined, DecimalDigits(resp.submissions[k].id), body)

NextDelivery ==
  \/ Tick(MsPerSecond)
  \/ PostSubmission(Undefined, "F", Body(<<Field("submission_data", Obj(S1))>>), "k3x9q")
  \/ \E l \in CollectorLimits : CollectorDrain(l)
  \/ \E k \in 1..MaxSubs, b \in CollectorBodies : CollectorAdvance(k, b)

\* The collector keeps draining, and advances what it receives: a drain that
\* returned submissions is followed by a status update of one of them, however
\* often the answers to other callers' requests come in between (strong
\* fairness, the received batch being read from the last answer). Submissions
\* arrive at any time.
SpecDelivery ==
  /\ InitQueue
  /\ [][NextDelivery]_vars
  /\ WF_vars(\E l \in CollectorLimits : CollectorDrain(l))
  /\ SF_vars(\E k \in 1..MaxSubs, b \in CollectorBodies : CollectorAdvance(k, b))

\* The i-th stored submission is waiting in the queue.
Queued(i) == Len(submissions) >= i /\ submissions[i].status = "pending"

\* The last answer is a drain that returned the i-th stored submission.
ReturnedByDrain(i) == Drained /\ i \in Returned

\* A drain returns the head of the queue: when submissions are pending it
\* returns at least one, and none that is pending and left out was created
\* before one that is returned.
HeadOfQueue ==
  Drained =>
    /\ PendingIds # {} => Returned # {}
    /\ \A i \in Returned, j \in PendingIds \ Returned :
         submissions[i].created_at <= submissions[j].created_at

\* C25: at-least-once delivery. While the collector keeps draining with a
\* limit of at least 1 and advances every submission it receives, every
\* submission waiting in the queue is eventually returned by a drain, also
\* when further submissions arrive in between; a drain never passes over a
\* pending submission in favour of one created later.
C25_EventuallyDelivered ==
  /\ \A i \in 1..MaxSubs : Queued(i) ~> ReturnedByDrain(i)
  /\ []HeadOfQueue

\* The second of two submissions, enqueued a second after the first while the
\* first was already returned and advanced, is returned by a drain.
C25_Witness ==
  /\ Len(submissions) = 2
  /\ submissions[1].created_at < submissions[2].created_at
  /\ submissions[1].status = "sent"
  /\ ReturnedByDrain(2)
  /\ ~ReturnedByDrain(1)

\* A step in which the store executes the drain that handler h is waiting for
\* and the handler has its answer.
DrainExecuted(h) ==
  /\ inflight[h].stage = "store"
  /\ inflight[h].req.route = "GET pending"
  /\ inflight'[h].stage = "respond"
  /\ inflight'[h].resp.code = 200

\* The ids of the submissions in the answer a handler holds.
Holds(h) ==
  {inflight[h].resp.submissions[i].id : i \in 1..Len(inflight[h].resp.submissions)}

Listed == req.route = "POST submissions" /\ resp.code = 200

\* The stored submissions that satisfy every filter supplied in the request.
Satisfying ==
  LET filters == BodyObject(req.input.body)
      has(k) == k \in Keys(filters)
  IN {i \in 1..Len(submissions) :
        /\ has("status") => submissions[i].status = GetKey(filters, "status").s
        /\ has("form_id") => submissions[i].form_id = GetKey(filters, "form_id").s
        /\ has("start_date") => submissions[i].created_at >= GetKey(filters, "start_date").s
        /\ has("end_date") => submissions[i].created_at <= GetKey(filters, "end_date").s}

\* The limit of the request: the member `limit`, 100 without one.
RequestedLimit ==
  LET filters == BodyObject(req.input.body)
  IN IF "limit" \in Keys(filters) THEN ParseInt(GetKey(filters, "limit").s).n
     ELSE DefaultLimit

\* C27: the filtered list holds exactly the stored submissions that satisfy
\* every supplied filter, newest first by created_at, cut to at most `limit`
\* entries (100 without a limit): no entry twice, no entry that fails a
\* filter, at most `limit` entries, all satisfying submissions when they are
\* no more than the limit, and no satisfying submission left out for an older
\* one.
C27_FilteredList ==
  Listed =>
    LET list == resp.submissions
        ids == {list[k].id : k \in 1..Len(list)}
    IN /\ Cardinality(ids) = Len(list)
       /\ ids \subseteq Satisfying
       /\ Len(list) <= RequestedLimit
       /\ Cardinality(Satisfying) <= RequestedLimit => ids = Satisfying
       /\ \A k \in 1..Len(list) :
            /\ list[k].status = submissions[list[k].id].status
            /\ list[k].form_id = submissions[list[k].id].form_id
            /\ list[k].created_at = submissions[list[k].id].created_at
            /\ list[k].data = JSONParse(submissions[list[k].id].submission_data)
       /\ \A k \in 1..(Len(list) - 1) : list[k].created_at >= list[k + 1].created_at
       /\ \A i \in ids, j \in Satisfying \ ids :
            submissions[i].created_at >= submissions[j].created_at

\* The routes that write a structure or a submission.
WritingRoutes == {"POST structure", "POST submission", "PATCH status"}

\* C28: a store failure during a save, an enqueue or a status update is
\* surfaced at once. A handler reaches its store call once: from there its
\* only step is to its answer, and from its answer to the end of the request,
\* never back to the store. When the store is down at that step the answer is
\* the 500 with the generic body, and the stored structures and submissions
\* are what they were.
C28_FailureSurfacedOnce ==
  [][\A h \in Handlers :
       /\ (/\ inflight[h].stage = "store"
           /\ inflight'[h] # inflight[h]) =>
            /\ inflight'[h].stage = "respond"
            /\ inflight'[h].req = inflight[h].req
       /\ (/\ inflight[h].stage = "store"
           /\ inflight[h].req.route \in WritingRoutes
           /\ inflight'[h] # inflight[h]
           /\ StoreThrows) =>
            /\ inflight'[h].resp = InternalServerError
            /\ webform_structures' = webform_structures
            /\ submissions' = submissions
       /\ (/\ inflight[h].stage = "respond"
           /\ inflight'[h] # inflight[h]) =>
            /\ inflight'[h] = Idle
            /\ resp' = inflight[h].resp]_vars

\* The store went down while a save and a status update were in flight: both
\* are answered 500, no structure is stored and submission 1 is still pending.
C28_Witness ==
  /\ database = "disconnected"
  /\ inflight["h1"].stage = "respond" /\ inflight["h2"].stage = "respond"
  /\ inflight["h1"].req.route = "POST structure" /\ inflight["h2"].req.route = "PATCH status"
  /\ inflight["h1"].resp = InternalServerError /\ inflight["h2"].resp = InternalServerError
  /\ webform_structures = {}
  /\ Len(submissions) = 1 /\ submissions[1].status = "pending"
  /\ submissions[1].retry_count = 0

\* C29: a status that has left pending never becomes pending again, whatever
\* request follows, and a submission whose status was advanced (to
\* processing, sent or failed) is in the answer of no drain made from then on.
C29_NeverPendingAgain ==
  [][\A i \in 1..Len(submissions) :
       submissions[i].status # "pending" =>
         /\ submissions'[i].status # "pending"
         /\ (req'.route = "GET pending" /\ resp'.code = 200) =>
              \A k \in 1..Len(resp'.submissions) : resp'.submissions[k].id # submissions[i].id]_vars

\* Submission 1 was marked failed, submission 2 is pending, and the drain
\* just answered returns submission 2 alone.
C29_Witness ==
  /\ Len(submissions) = 2
  /\ submissions[1].status = "failed" /\ submissions[1].retry_count = 1
  /\ submissions[2].status = "pending"
  /\ Drained
  /\ Returned = {2}

\* A step that is an accepted status update of the submission with rowid n.
UpdateOf(n) ==
  /\ req'.route = "PATCH status"
  /\ resp'.code = 200
  /\ now' = now
  /\ database' = database
  /\ ParseInt(req'.input.id) = Int32(n)

\* C30: in every reachable state sent_at is set exactly for the submissions
\* whose status is sent -- an update to processing or failed of a submission
\* marked sent clears it -- and an accepted status update leaves in
\* error_message the value sent with it, or null when it sent none.
C30_SentAtAndErrorMessage ==
  /\ [](\A i \in 1..Len(submissions) :
          (submissions[i].sent_at # NULL) <=> (submissions[i].status = "sent"))
  /\ [][\A i \in 1..Len(submissions) :
          UpdateOf(submissions[i].id) =>
            LET body == BodyObject(req'.input.body)
            IN /\ submissions'[i].error_message
                    = IF "error_message" \in Keys(body)
                        THEN GetKey(body, "error_message").s ELSE NULL
               /\ (submissions[i].status = "sent" /\ submissions'[i].status # "sent")
                    => submissions'[i].sent_at = NULL]_vars

\* Submission 1, marked failed earlier (retry_count 1), has just been marked
\* processing by an update without a message, and submission 2 is sent:
\* submission 1 has neither sent_at nor error_message, submission 2 has sent_at.
C30_Witness ==
  /\ Len(submissions) = 2
  /\ submissions[1].status = "processing" /\ submissions[1].retry_count = 1
  /\ submissions[1].sent_at = NULL /\ submissions[1].error_message = NULL
  /\ submissions[2].status = "sent" /\ submissions[2].sent_at # NULL
  /\ req.route = "PATCH status" /\ resp.code = 200
  /\ ParseInt(req.input.id) = Int32(1)

\* The last request is a status update with a valid status that passed the gate.
ValidStatusUpdate ==
  /\ req.route = "PATCH status"
  /\ req.authorized
  /\ Parsed(req.input.body)
  /\ ValidStatus(GetKey(BodyObject(req.input.body), "status").s)

\* C31: a status update with a valid status whose id matches no stored
\* submission (a rowid not in the table, or an id that is no number) is
\* answered 200 and leaves every stored submission as it was; no submission
\* is created.
C31_UnknownIdIsNoOp ==
  [][(/\ req'.route = "PATCH status"
      /\ req'.authorized
      /\ now' = now
      /\ Parsed(req'.input.body)
      /\ ValidStatus(GetKey(BodyObject(req'.input.body), "status").s)
      /\ \A i \in 1..Len(submissions) :
           ParseInt(req'.input.id) # Int32(submissions[i].id))
       => (resp'.code = 200 /\ submissions' = submissions)]_vars

\* Two submissions are stored and pending; the update of id 3 to sent has
\* been answered 200 and both are as they were created.
C31_Witness ==
  /\ ValidStatusUpdate
  /\ GetKey(BodyObject(req.input.body), "status").s = "sent"
  /\ ParseInt(req.input.id) = Int32(3)
  /\ resp.code = 200
  /\ Len(submissions) = 2
  /\ \A i \in 1..2 : /\ submissions[i].status = "pending"
                     /\ submissions[i].sent_at = NULL
                     /\ submissions[i].retry_count = 0

\* C32: a save replaces the whole stored row. In every reachable state each
\* stored structure has created_at equal to updated_at, version 1 and
\* is_active true, and GET structure shows the two times equal; after every
\* save, an overwrite included, the row of the form carries the time of that
\* save as created_at and as updated_at and a rowid that no row had before.
C32_WholeRowReplaced ==
  /\ [](/\ \A r \in webform_structures :
             r.created_at = r.updated_at /\ r.version = 1 /\ r.is_active
        /\ (req.route = "GET structure" /\ resp.code = 200) =>
             resp.created_at = resp.updated_at)
  /\ [][\A f \in Forms :
          SavesTo(f) =>
            \A r \in webform_structures' :
              r.webform_id = f =>
                /\ r.created_at = now \div MsPerSecond
                /\ r.updated_at = now \div MsPerSecond
                /\ r.version = 1
                /\ \A o \in webform_structures : o.id < r.id]_vars

\* The structure of F was saved, and saved again a second later: the one
\* stored row is the second one (rowid 2), created and updated at second 1.
C32_Witness ==
  /\ req.route = "POST structure" /\ resp.code = 200 /\ resp.id = 2
  /\ req.input.webform_id = "F"
  /\ now = MsPerSecond
  /\ Cardinality(webform_structures) = 1
  /\ \A r \in webform_structures :
       /\ r.webform_id = "F" /\ r.id = 2
       /\ r.created_at = 1 /\ r.updated_at = 1 /\ r.version = 1

\* A step that is a request admitted by rateLimit.
AdmittedRequest ==
  /\ now' = now
  /\ req'.route = "unknown"
  /\ resp' = EndpointNotFound

\* The window a key of rateLimitMap was written for: its last piece.
WindowOf(k) == ParseInt(k[Len(k)]).n

\* C33: pruning removes only counters of windows older than the previous
\* window. After every admitted request, whatever the caller's address, the
\* counter of the caller's current window is in the map and is one more than
\* before, no other counter has changed, and every counter that is gone was
\* written for a window before the previous one.
C33_PruneKeepsCurrent ==
  [][AdmittedRequest =>
       LET key == RateKey(req'.input.ip)
       IN /\ key \in DOMAIN rateLimitMap'
          /\ rateLimitMap'[key] = RateCount(key) + 1
          /\ {k \in DOMAIN rateLimitMap' \ {key} :
                k \notin DOMAIN rateLimitMap \/ rateLimitMap'[k] # rateLimitMap[k]} = {}
          /\ {k \in DOMAIN rateLimitMap \ DOMAIN rateLimitMap' :
                WindowOf(k) >= currentWindow - 1} = {}]_vars

\* A step that is a request whose logging writes are modelled.
LoggedStep ==
  /\ "errorLogFails" \in DOMAIN req'
  /\ now' = now
  /\ database' = database

\* C34: a failure of a logging write never changes the outcome of a request.
\* Whether or not the INSERT of logError and the INSERT of the request log
\* throw, the response is the one the gate or the handler chose: the 401 of
\* a gate, the 404 of an unknown structure or an unknown path, the 500 of a
\* failed store call, or the 200.
C34_LoggingNeverChangesOutcome ==
  [][LoggedStep => resp' = Chosen(req'.route, req'.token, req'.webform_id)]_vars

\* The store is reachable, both logging writes of the last request failed,
\* and the request was rejected by the gate with 401.
C34_Witness ==
  /\ "errorLogFails" \in DOMAIN req
  /\ req.errorLogFails /\ req.apiUsageFails
  /\ database = "connected"
  /\ req.route = "GET pending"
  /\ resp = Unauthorized

====
